---- MODULE Spec2Model ----
(***************************************************************************)
(* Meridian paper trading: the trade ledger, the account state, the risk   *)
(* evaluator and the lifecycle commands (open, mark, process, close).      *)
(*                                                                         *)
(* Numbers are fixed-point integers:                                       *)
(*   money, leverage, z-scores, APRs and fractions  two decimals (Scale)   *)
(*   time                                           hours since the epoch  *)
(* The input sets below are chosen so that every division is exact.        *)
(* A nullable field holds <<>> for null and <<v>> for the value v.         *)
(***************************************************************************)
EXTENDS Integers, Sequences, FiniteSets, TLC

\* ------------------------------------------------------------------ bounds
MaxTrades == 2
MaxDays == 1
MaxAlerts == 3

\* ------------------------------------------------------- fixed-point scales
Scale == 100

\* ------------------------------------------------------- program constants
DEFAULT_STARTING_CAPITAL == 10000 * Scale
DEFAULT_POSITION_SIZE == 1000 * Scale
\* TAKER_FEE_RATE = 0.001 = 1 / TAKER_FEE_DEN
TAKER_FEE_DEN == 1000
HoursPerYear == 8760
HoursPerDay == 24

Null == <<>>
Some(v) == <<v>>
IsNull(x) == x = <<>>

Abs(x) == IF x < 0 THEN -x ELSE x
Min(a, b) == IF a <= b THEN a ELSE b
Max(a, b) == IF a >= b THEN a ELSE b

\* ------------------------------------------------------------------ inputs
Coins == {"HYPE", "BTC"}
Directions == {"LONG", "SHORT"}
AlertTypes == {"mean_reversion"}
\* APRs: multiples of 365.00 keep the accrual exact for whole days; one day
\* of funding at that spread moves 100% of the notional, so that a few trades
\* reach the drawdown and equity-ratio thresholds
AprValues == {0, 365 * Scale}
AlertAprValues == {365 * Scale}
FetchResults == {Null} \cup {Some(a) : a \in AprValues}
\* z-scores (two decimals): a 3.0 sigma signal
ZScores == {300}
HoldDaysValues == {1}
\* historical baseline file of a coin: absent, or {mean, stdDev}
StatsValues == {Some([mean |-> 0, stdDev |-> 18250])}

\* ------------------------------------------------------------ configuration
\* loadRiskConfig with its defaults, but for the concurrency cap, the loss
\* limit and the cooldown, which are set low enough for a short run to reach
\* them; fractions are two-decimal fixed point (0.20 -> 20)
RiskConfig(maxConcurrent, lossLimit) ==
  [ maxPositionSize        |-> 20,
    maxConcurrentPositions |-> maxConcurrent,
    maxTotalExposure       |-> 50,
    stopLossThreshold      |-> -5,
    maxDrawdown            |-> -15,
    maxLeverage            |-> 3 * Scale,
    consecutiveLossLimit   |-> lossLimit,
    cooldownDays           |-> 1 ]

\* loadLeverageConfig with its defaults, but for the strategy
LeverageConfig(strategy) ==
  [ strategy      |-> strategy,
    fixedLeverage |-> 1 * Scale,
    maxLeverage   |-> 6 * Scale ]

\* the environments (.env files) the program is run under
Environments ==
  { [risk |-> RiskConfig(1, 1), leverage |-> LeverageConfig("fixed")],
    [risk |-> RiskConfig(2, 2), leverage |-> LeverageConfig("signal_strength")],
    [risk |-> RiskConfig(2, 0), leverage |-> LeverageConfig("signal_strength")] }

PositionSizes == {DEFAULT_POSITION_SIZE}

VARIABLES
  trades,          \* data/paper-trades.json: the ledger, in append order
  state,           \* data/paper-state.json: the account state
  alertsLog,       \* data/paper-alerts-log.json: number of logged alerts
  now,             \* the wall clock, in hours
  riskConfig,      \* the environment's risk configuration
  leverageConfig,  \* the environment's leverage configuration
  positionSize,    \* PAPER_POSITION_SIZE
  procs,           \* the monitor and the CLI process while a command of theirs
                   \* is in flight: position, in-memory ledger and state
  call,            \* a function applied to a drawn fixture: name, arguments
                   \* and result
  snapshots        \* data/paper-snapshots.json: the daily snapshots

vars == <<trades, state, alertsLog, now, riskConfig, leverageConfig,
          positionSize, procs, call, snapshots>>

\* a process that is not running a command
IdleProc == [pc |-> "idle", trades |-> <<>>, state |-> Null, arg |-> Null]

\* no command is in flight: every command runs from its load to its last
\* save before the next one starts
NoProcs == [monitor |-> IdleProc, cli |-> IdleProc, start |-> Null]

\* no function is under test
NoCall == [fn |-> "none", args |-> Null, result |-> Null]

\* ------------------------------------------------------------ persistence
\* loadState: the default account when no state file exists
DefaultState(t) ==
  [ openPositions   |-> <<>>,
    currentEquity   |-> DEFAULT_STARTING_CAPITAL,
    startingCapital |-> DEFAULT_STARTING_CAPITAL,
    peakEquity      |-> DEFAULT_STARTING_CAPITAL,
    lastUpdated     |-> t ]

\* mutant: the parse is outside the try, a bad file throws
loadTrades_noCatch(file) ==
  IF file.kind = "json"
  THEN [threw |-> FALSE, warned |-> FALSE, value |-> file.value[1]]
  ELSE [threw |-> file.kind # "missing", warned |-> FALSE, value |-> <<>>]

\* loadTrades on a trades file that is missing, cannot be read, is not JSON,
\* or holds the JSON of a ledger: the parsed ledger, or the empty ledger
\* (after console.error when reading or parsing threw)
loadTrades(file) ==
  IF file.kind = "json"
  THEN [threw |-> FALSE, warned |-> FALSE, value |-> file.value[1]]
  ELSE [threw |-> FALSE, warned |-> file.kind # "missing", value |-> <<>>]

\* loadState on a state file of the same kinds: the parsed state, or the
\* default account
loadState(file, t) ==
  IF file.kind = "json"
  THEN [threw |-> FALSE, warned |-> FALSE, value |-> file.value[1]]
  ELSE [threw |-> FALSE, warned |-> file.kind # "missing",
        value |-> DefaultState(t)]

\* saveState stamps lastUpdated
saveState(s, t) == [s EXCEPT !.lastUpdated = t]

\* ------------------------------------------------------------- sequences
RECURSIVE SelectIdx(_, _, _)
\* the indices i <= n with P[i], ascending (filter, kept as ledger positions)
SelectIdx(n, P, acc) ==
  IF n = 0 THEN acc
  ELSE SelectIdx(n - 1, P, IF P[n] THEN <<n>> \o acc ELSE acc)

Range(s) == {s[i] : i \in 1..Len(s)}

\* Array.prototype.includes on the id list
Includes(ids, id) == \E i \in 1..Len(ids) : ids[i] = id

RECURSIVE SumNotional(_)
\* reduce((sum, t) => sum + t.notionalSize, 0)
SumNotional(ts) ==
  IF ts = <<>> THEN 0 ELSE Head(ts).notionalSize + SumNotional(Tail(ts))

\* Array.prototype.slice(-n): n = 0 (that is -0) and NaN give the whole array,
\* a positive n the last n elements, a negative n drops the first -n
SliceLast(s, n) ==
  IF n = 0 THEN s
  ELSE IF n > 0 THEN SubSeq(s, Max(1, Len(s) - n + 1), Len(s))
  ELSE SubSeq(s, Min(Len(s), -n) + 1, Len(s))

\* ----------------------------------------------------------- risk evaluator
getOpenTrades(ts, st) ==
  LET isOpen(t) == Includes(st.openPositions, t.id) IN SelectSeq(ts, isOpen)

getClosedTrades(ts) ==
  LET isClosed(t) == t.status = "CLOSED" IN SelectSeq(ts, isClosed)

\* mutant: the cap compared with > instead of >=
ConcurrentCapReached_gt(st, rc) ==
  Len(st.openPositions) > rc.maxConcurrentPositions

\* check 1: state.openPositions.length >= riskConfig.maxConcurrentPositions
ConcurrentCapReached(st, rc) ==
  Len(st.openPositions) >= rc.maxConcurrentPositions

\* mutant: the coin compared with the trade's direction field
hasOpenInCoin_wrongField(ts, st, coin) ==
  \E t \in Range(getOpenTrades(ts, st)) : t.direction = coin

\* check 2: openTrades.some(t => t.coin === coin)
hasOpenInCoin(ts, st, coin) ==
  \E t \in Range(getOpenTrades(ts, st)) : t.coin = coin

\* check 3: totalExposure >= state.currentEquity * riskConfig.maxTotalExposure
ExposureReached(ts, st, rc) ==
  SumNotional(getOpenTrades(ts, st)) * Scale
    >= st.currentEquity * rc.maxTotalExposure

\* mutant: the drawdown measured from the starting capital, not the peak
DrawdownReached_fromStart(st, rc) ==
  (st.startingCapital - st.currentEquity) * Scale
    >= Abs(rc.maxDrawdown) * st.startingCapital

\* check 4: (peakEquity - currentEquity) / peakEquity >= |maxDrawdown|
\* (peakEquity > 0: it starts at the starting capital and never decreases)
DrawdownReached(st, rc) ==
  (st.peakEquity - st.currentEquity) * Scale
    >= Abs(rc.maxDrawdown) * st.peakEquity

\* mutant: the first trades of the coin instead of the last (slice(0, n))
recentTrades_oldest(ts, coin, rc) ==
  LET closedInCoin(t) == t.coin = coin /\ t.status = "CLOSED"
      closed == SelectSeq(ts, closedInCoin)
  IN  SubSeq(closed, 1, Min(Len(closed), rc.consecutiveLossLimit))

\* check 5: the trades the cooldown looks at
recentTrades(ts, coin, rc) ==
  LET closedInCoin(t) == t.coin = coin /\ t.status = "CLOSED"
  IN  SliceLast(SelectSeq(ts, closedInCoin), rc.consecutiveLossLimit)

allLosses(ts, coin, rc) ==
  LET recent == recentTrades(ts, coin, rc)
  IN  /\ Len(recent) = rc.consecutiveLossLimit
      /\ \A i \in 1..Len(recent) :
           (IF IsNull(recent[i].realizedPnl) THEN 0
            ELSE recent[i].realizedPnl[1]) < 0

\* recentTrades[recentTrades.length - 1] is undefined on an empty array, and
\* reading lastLoss.exitTime then throws a TypeError
CooldownThrows(ts, coin, rc) ==
  allLosses(ts, coin, rc) /\ Len(recentTrades(ts, coin, rc)) = 0

\* mutant: the cooldown counted from the last loss's entry time
cooldownEnd_fromEntry(ts, coin, rc) ==
  LET recent == recentTrades(ts, coin, rc)
      lastLoss == recent[Len(recent)]
  IN  lastLoss.entryTime + rc.cooldownDays * HoursPerDay

\* cooldownEnd = lastLoss.exitTime + cooldownDays (setDate on the exit date)
cooldownEnd(ts, coin, rc) ==
  LET recent == recentTrades(ts, coin, rc)
      lastLoss == recent[Len(recent)]
  IN  lastLoss.exitTime[1] + rc.cooldownDays * HoursPerDay

Allowed == [allowed |-> TRUE, reason |-> "none", threw |-> FALSE]
Rejected(r) == [allowed |-> FALSE, reason |-> r, threw |-> FALSE]
Threw == [allowed |-> FALSE, reason |-> "TypeError", threw |-> TRUE]

\* mutant: the drawdown breaker is left out
canOpenTrade_noBreaker(st, ts, coin, rc, t) ==
  IF ConcurrentCapReached(st, rc) THEN Rejected("max_concurrent")
  ELSE IF hasOpenInCoin(ts, st, coin) THEN Rejected("open_in_coin")
  ELSE IF ExposureReached(ts, st, rc) THEN Rejected("max_exposure")
  ELSE IF allLosses(ts, coin, rc)
       THEN IF CooldownThrows(ts, coin, rc) THEN Threw
            ELSE IF t < cooldownEnd(ts, coin, rc) THEN Rejected("cooldown")
            ELSE Allowed
  ELSE Allowed

\* mutant: the drawdown breaker is evaluated before the other checks
canOpenTrade_drawdownFirst(st, ts, coin, rc, t) ==
  IF DrawdownReached(st, rc) THEN Rejected("max_drawdown")
  ELSE IF ConcurrentCapReached(st, rc) THEN Rejected("max_concurrent")
  ELSE IF hasOpenInCoin(ts, st, coin) THEN Rejected("open_in_coin")
  ELSE IF ExposureReached(ts, st, rc) THEN Rejected("max_exposure")
  ELSE IF allLosses(ts, coin, rc)
       THEN IF CooldownThrows(ts, coin, rc) THEN Threw
            ELSE IF t < cooldownEnd(ts, coin, rc) THEN Rejected("cooldown")
            ELSE Allowed
  ELSE Allowed

\* canOpenTrade: the five checks in the order of the code, the first failing
\* one decides
canOpenTrade(st, ts, coin, rc, t) ==
  IF ConcurrentCapReached(st, rc) THEN Rejected("max_concurrent")
  ELSE IF hasOpenInCoin(ts, st, coin) THEN Rejected("open_in_coin")
  ELSE IF ExposureReached(ts, st, rc) THEN Rejected("max_exposure")
  ELSE IF DrawdownReached(st, rc) THEN Rejected("max_drawdown")
  ELSE IF allLosses(ts, coin, rc)
       THEN IF CooldownThrows(ts, coin, rc) THEN Threw
            ELSE IF t < cooldownEnd(ts, coin, rc) THEN Rejected("cooldown")
            ELSE Allowed
  ELSE Allowed

\* --------------------------------------------------------- leverage policy
\* mutant: the steps are taken above their thresholds, not at them
signalStrengthLeverage_above(zScore) ==
  LET absZ == Abs(zScore)
  IN  IF absZ > 300 THEN 6 * Scale
      ELSE IF absZ > 250 THEN 4 * Scale
      ELSE IF absZ > 200 THEN 2 * Scale
      ELSE 1 * Scale

signalStrengthLeverage(zScore) ==
  LET absZ == Abs(zScore)
  IN  IF absZ >= 300 THEN 6 * Scale
      ELSE IF absZ >= 250 THEN 4 * Scale
      ELSE IF absZ >= 200 THEN 2 * Scale
      ELSE 1 * Scale

\* ratio = currentEquity / startingEquity against 1.2, 1.1 and 0.9
\* (for a positive startingEquity)
profitStackMultiplier(currentEquity, startingEquity) ==
  IF currentEquity * 10 >= 12 * startingEquity THEN 150
  ELSE IF currentEquity * 10 >= 11 * startingEquity THEN 125
  ELSE IF currentEquity * 10 <= 9 * startingEquity THEN 50
  ELSE 100

\* the switch over config.strategy: the leverage before the clamp
unclampedLeverage(config, zScore, currentEquity, startingEquity) ==
  LET m == profitStackMultiplier(currentEquity, startingEquity)
  IN  CASE config.strategy = "fixed" -> config.fixedLeverage
        [] config.strategy = "signal_strength" ->
             signalStrengthLeverage(zScore)
        [] config.strategy = "profit_stack" -> 2 * m
        [] config.strategy = "combined" ->
             (signalStrengthLeverage(zScore) * m) \div Scale
        [] OTHER -> 1 * Scale

\* mutant: the floor is applied before the cap
clampLeverage_floorFirst(leverage, maxLeverage) ==
  Min(Max(leverage, 1 * Scale), maxLeverage)

\* Math.min(leverage, config.maxLeverage), then Math.max(leverage, 1)
clampLeverage(leverage, maxLeverage) ==
  Max(Min(leverage, maxLeverage), 1 * Scale)

calculateLeverage(config, zScore, currentEquity, startingEquity) ==
  clampLeverage(unclampedLeverage(config, zScore, currentEquity,
                                  startingEquity),
                config.maxLeverage)

\* ------------------------------------------------------------- lifecycle
\* randomUUID: the k-th id generated; ids are unique, and two ids may share
\* their first characters
UUID(k) == <<(k + 1) \div 2, k>>

\* String.prototype.startsWith
startsWith(id, prefix) ==
  /\ Len(prefix) <= Len(id)
  /\ SubSeq(id, 1, Len(prefix)) = prefix

\* rate * hours * notional / 8760 for rate * hours = x >= 0, in cents and
\* cut to the cent: x * n \div (HoursPerYear * Scale), taken in parts that
\* stay within the integer range
accrue(x, n) ==
  LET a == (x \div HoursPerYear) * n
      r == x % HoursPerYear
  IN  (a \div Scale)
        + (r * (n \div Scale)
             + ((a % Scale) * HoursPerYear + r * (n % Scale)) \div Scale)
            \div HoursPerYear

\* mutant: a LONG accrues like a SHORT
calculatePnl_ignoresDirection(trade, currentApr, hoursHeld) ==
  LET spread == trade.entryApr - currentApr
  IN  IF spread * hoursHeld >= 0
      THEN accrue(spread * hoursHeld, trade.notionalSize)
      ELSE -accrue(-(spread * hoursHeld), trade.notionalSize)

\* (hourlyFixed - hourlyFloating) * notionalSize * hoursHeld for a SHORT,
\* (hourlyFloating - hourlyFixed) * notionalSize * hoursHeld for a LONG
calculatePnl(trade, currentApr, hoursHeld) ==
  LET spread == IF trade.direction = "SHORT"
                THEN trade.entryApr - currentApr
                ELSE currentApr - trade.entryApr
  IN  IF spread * hoursHeld >= 0
      THEN accrue(spread * hoursHeld, trade.notionalSize)
      ELSE -accrue(-(spread * hoursHeld), trade.notionalSize)

\* mutant: the collateral is not capped by the maximum position size
newTrade_noSizeCap(alert, st, ts, rc, lc, size, t) ==
  LET leverage == calculateLeverage(lc, alert.zScore, st.currentEquity,
                                    st.startingCapital)
      finalLeverage == Min(leverage, rc.maxLeverage)
      maxSize == (st.currentEquity * rc.maxPositionSize) \div Scale
      baseSize == IF IsNull(size) THEN DEFAULT_POSITION_SIZE ELSE size[1]
      collateral == baseSize
      notionalSize == (collateral * finalLeverage) \div Scale
      entryFee == notionalSize \div TAKER_FEE_DEN
  IN  [ id                |-> UUID(Len(ts) + 1),
        coin              |-> alert.coin,
        direction         |-> alert.direction,
        strategy          |-> alert.type,
        status            |-> "OPEN",
        entryTime         |-> t,
        entryApr          |-> alert.currentApr,
        entryImpliedApr   |-> alert.impliedApr,
        entryZScore       |-> alert.zScore,
        notionalSize      |-> notionalSize,
        leverage          |-> finalLeverage,
        targetHoldDays    |-> alert.holdDays,
        scheduledExitTime |-> t + alert.holdDays * HoursPerDay,
        exitTime          |-> Null,
        exitApr           |-> Null,
        exitZScore        |-> Null,
        exitReason        |-> Null,
        realizedPnl       |-> Null,
        unrealizedPnl     |-> 0,
        fees              |-> entryFee ]

\* the PaperTrade that openTrade builds once the risk check has passed
newTrade(alert, st, ts, rc, lc, size, t) ==
  LET leverage == calculateLeverage(lc, alert.zScore, st.currentEquity,
                                    st.startingCapital)
      finalLeverage == Min(leverage, rc.maxLeverage)
      maxSize == (st.currentEquity * rc.maxPositionSize) \div Scale
      baseSize == IF IsNull(size) THEN DEFAULT_POSITION_SIZE ELSE size[1]
      collateral == Min(baseSize, maxSize)
      notionalSize == (collateral * finalLeverage) \div Scale
      entryFee == notionalSize \div TAKER_FEE_DEN
  IN  [ id                |-> UUID(Len(ts) + 1),
        coin              |-> alert.coin,
        direction         |-> alert.direction,
        strategy          |-> alert.type,
        status            |-> "OPEN",
        entryTime         |-> t,
        entryApr          |-> alert.currentApr,
        entryImpliedApr   |-> alert.impliedApr,
        entryZScore       |-> alert.zScore,
        notionalSize      |-> notionalSize,
        leverage          |-> finalLeverage,
        targetHoldDays    |-> alert.holdDays,
        scheduledExitTime |-> t + alert.holdDays * HoursPerDay,
        exitTime          |-> Null,
        exitApr           |-> Null,
        exitZScore        |-> Null,
        exitReason        |-> Null,
        realizedPnl       |-> Null,
        unrealizedPnl     |-> 0,
        fees              |-> entryFee ]

\* mutant: the new id is pushed to openPositions before the risk check
openTrade_pushFirst(alert, st, ts, rc, lc, size, t) ==
  LET check == canOpenTrade(st, ts, alert.coin, rc, t)
      trade == newTrade(alert, st, ts, rc, lc, size, t)
      st1 == [st EXCEPT !.openPositions = Append(@, trade.id)]
  IN  IF ~check.allowed
      THEN [trades |-> ts, state |-> st1,
            trade |-> Null, reason |-> check.reason]
      ELSE [trades |-> Append(ts, trade), state |-> saveState(st1, t),
            trade |-> Some(trade), reason |-> "none"]

\* openTrade on the loaded ledger and state: the ledger and the state it
\* leaves in memory and on disk, and the {trade, reason} it returns (the
\* alert log is written by the caller action)
openTrade(alert, st, ts, rc, lc, size, t) ==
  LET check == canOpenTrade(st, ts, alert.coin, rc, t)
      trade == newTrade(alert, st, ts, rc, lc, size, t)
  IN  IF ~check.allowed
      THEN [trades |-> ts, state |-> st,
            trade |-> Null, reason |-> check.reason]
      ELSE [trades |-> Append(ts, trade),
            state  |-> saveState(
                         [st EXCEPT !.openPositions = Append(@, trade.id)], t),
            trade  |-> Some(trade), reason |-> "none"]

\* mutant: the filter keeps the closed trade's id
RemoveId_keepsAll(ids, id) == LET keep(x) == TRUE IN SelectSeq(ids, keep)

\* state.openPositions.filter(id => id !== trade.id)
RemoveId(ids, id) == LET keep(x) == x # id IN SelectSeq(ids, keep)

\* mutant: the close forgets to zero unrealizedPnl
closedTrade_keepsUnrealized(trade, fees, netPnl, exitApr, exitZScore, exitReason, t) ==
  [trade EXCEPT !.fees = fees,
                !.status = "CLOSED",
                !.exitTime = Some(t),
                !.exitApr = Some(exitApr),
                !.exitZScore = Some(exitZScore),
                !.exitReason = Some(exitReason),
                !.realizedPnl = Some(netPnl)]

\* mutant: the close also restamps the entry time
closedTrade_restampsEntry(trade, fees, netPnl, exitApr, exitZScore, exitReason, t) ==
  [trade EXCEPT !.fees = fees,
                !.status = "CLOSED",
                !.entryTime = t,
                !.exitTime = Some(t),
                !.exitApr = Some(exitApr),
                !.exitZScore = Some(exitZScore),
                !.exitReason = Some(exitReason),
                !.realizedPnl = Some(netPnl),
                !.unrealizedPnl = 0]

\* closeTrade, "Update trade": the fields the close writes on the trade
closedTrade(trade, fees, netPnl, exitApr, exitZScore, exitReason, t) ==
  [trade EXCEPT !.fees = fees,
                !.status = "CLOSED",
                !.exitTime = Some(t),
                !.exitApr = Some(exitApr),
                !.exitZScore = Some(exitZScore),
                !.exitReason = Some(exitReason),
                !.realizedPnl = Some(netPnl),
                !.unrealizedPnl = 0]

\* mutant: the net P&L is counted twice
creditEquity_twice(st, netPnl) == st.currentEquity + netPnl + netPnl

\* state.currentEquity += netPnl
creditEquity(st, netPnl) == st.currentEquity + netPnl

\* mutant: the peak follows the equity down
raisePeak_follows(peakEquity, equity) == equity

\* if (state.currentEquity > state.peakEquity) state.peakEquity = ...
raisePeak(peakEquity, equity) ==
  IF equity > peakEquity THEN equity ELSE peakEquity

\* mutant: the close charges no fee of its own
exitFeeOf_none(trade) == 0

\* exitFee = trade.notionalSize * TAKER_FEE_RATE
exitFeeOf(trade) == trade.notionalSize \div TAKER_FEE_DEN

\* closeTrade on the ledger entry at position i
closeTrade(i, st, ts, exitApr, exitZScore, exitReason, t) ==
  LET trade == ts[i]
      hoursHeld == t - trade.entryTime
      grossPnl == calculatePnl(trade, exitApr, hoursHeld)
      exitFee == exitFeeOf(trade)
      fees == trade.fees + exitFee
      netPnl == grossPnl - fees
      closed == closedTrade(trade, fees, netPnl, exitApr, exitZScore,
                            exitReason, t)
      equity == creditEquity(st, netPnl)
      st1 == [st EXCEPT !.openPositions = RemoveId(@, trade.id),
                        !.currentEquity = equity,
                        !.peakEquity = raisePeak(@, equity)]
  IN  [trades |-> [ts EXCEPT ![i] = closed], state |-> saveState(st1, t)]

\* mutant: a trade is due only after its scheduled exit time (< for <=)
getTradesDueForExit_strict(ts, st, t) ==
  SelectIdx(Len(ts),
            [i \in 1..Len(ts) |->
               /\ Includes(st.openPositions, ts[i].id)
               /\ ts[i].scheduledExitTime < t],
            <<>>)

\* getTradesDueForExit, as ledger positions
getTradesDueForExit(ts, st, t) ==
  SelectIdx(Len(ts),
            [i \in 1..Len(ts) |->
               /\ Includes(st.openPositions, ts[i].id)
               /\ ts[i].scheduledExitTime <= t],
            <<>>)

\* getTradesAtStopLoss, as ledger positions:
\* unrealizedPnl / notionalSize <= stopLossThreshold
\* (a zero notional divides to NaN or to an infinity)
getTradesAtStopLoss(ts, st, rc) ==
  SelectIdx(Len(ts),
            [i \in 1..Len(ts) |->
               /\ Includes(st.openPositions, ts[i].id)
               /\ IF ts[i].notionalSize > 0
                  THEN ts[i].unrealizedPnl * Scale
                         <= rc.stopLossThreshold * ts[i].notionalSize
                  ELSE ts[i].notionalSize = 0 /\ ts[i].unrealizedPnl < 0],
            <<>>)

\* calculateZScore over loadHistoricalStats, 0 when the baseline is missing
exitZScoreOf(stats, value) ==
  IF IsNull(stats) THEN 0
  ELSE IF stats[1].stdDev > 0
       THEN ((value - stats[1].mean) * Scale) \div stats[1].stdDev
       ELSE 0

RECURSIVE CloseLoop_stopsAtNull(_, _, _, _, _, _, _)
\* mutant: a failed fetch ends the loop (break for continue)
CloseLoop_stopsAtNull(idxs, fetch, stats, exitReason, ts, st, t) ==
  IF idxs = <<>> THEN [trades |-> ts, state |-> st]
  ELSE LET i == Head(idxs)
       IN  IF IsNull(fetch[i]) THEN [trades |-> ts, state |-> st]
           ELSE LET next == closeTrade(i, st, ts, fetch[i][1],
                                       exitZScoreOf(stats[i], fetch[i][1]),
                                       exitReason, t)
                IN  CloseLoop_stopsAtNull(Tail(idxs), fetch, stats,
                                          exitReason, next.trades,
                                          next.state, t)

RECURSIVE CloseLoop(_, _, _, _, _, _, _)
\* the for-loops of processCommand: fetch[i] is what fetchCurrentApr returns
\* for the trade at position i; a null result skips the trade
CloseLoop(idxs, fetch, stats, exitReason, ts, st, t) ==
  IF idxs = <<>> THEN [trades |-> ts, state |-> st]
  ELSE LET i == Head(idxs)
           next == IF IsNull(fetch[i]) THEN [trades |-> ts, state |-> st]
                   ELSE closeTrade(i, st, ts, fetch[i][1],
                                   exitZScoreOf(stats[i], fetch[i][1]),
                                   exitReason, t)
       IN  CloseLoop(Tail(idxs), fetch, stats, exitReason,
                     next.trades, next.state, t)

RECURSIVE MarkLoop_accumulates(_, _, _, _)
\* mutant: the mark is added to the stored mark (+= for =)
MarkLoop_accumulates(idxs, fetch, ts, t) ==
  IF idxs = <<>> THEN ts
  ELSE LET i == Head(idxs)
           marked == IF IsNull(fetch[i]) THEN ts
                     ELSE [ts EXCEPT ![i].unrealizedPnl =
                             @ + calculatePnl(ts[i], fetch[i][1],
                                              t - ts[i].entryTime)]
       IN  MarkLoop_accumulates(Tail(idxs), fetch, marked, t)

RECURSIVE MarkLoop(_, _, _, _)
\* the for-loop of updateUnrealizedPnl
MarkLoop(idxs, fetch, ts, t) ==
  IF idxs = <<>> THEN ts
  ELSE LET i == Head(idxs)
           marked == IF IsNull(fetch[i]) THEN ts
                     ELSE [ts EXCEPT ![i].unrealizedPnl =
                             calculatePnl(ts[i], fetch[i][1],
                                          t - ts[i].entryTime)]
       IN  MarkLoop(Tail(idxs), fetch, marked, t)

\* the ledger positions of getOpenTrades
OpenIdx(ts, st) ==
  SelectIdx(Len(ts),
            [i \in 1..Len(ts) |-> Includes(st.openPositions, ts[i].id)],
            <<>>)

\* ----------------------------------------------------------------- metrics
\* new Date().toISOString().split('T')[0]: the calendar date of a time, as
\* the number of the day
DateOf(t) == t \div HoursPerDay

\* t.realizedPnl ?? 0
pnlOrZero(t) == IF IsNull(t.realizedPnl) THEN 0 ELSE t.realizedPnl[1]

RECURSIVE SumPnl(_)
\* reduce((sum, t) => sum + (t.realizedPnl ?? 0), 0)
SumPnl(ts) ==
  IF ts = <<>> THEN 0 ELSE pnlOrZero(Head(ts)) + SumPnl(Tail(ts))

RECURSIVE SumUnrealized(_)
\* reduce((sum, t) => sum + t.unrealizedPnl, 0)
SumUnrealized(ts) ==
  IF ts = <<>> THEN 0 ELSE Head(ts).unrealizedPnl + SumUnrealized(Tail(ts))

\* (n / d) * 100, two decimals
percentOf(n, d) == (n * 100 * Scale) \div d

\* (d / peak) * 100 for d >= 0 and peak > 0, cut to two decimals and taken
\* in parts that stay within the integer range
drawdownPercent(d, peak) ==
  ((d * 100) \div peak) * Scale + (((d * 100) % peak) * Scale) \div peak

RECURSIVE InsertByExit(_, _)
\* t placed behind the trades that exit no later than it
InsertByExit(sorted, t) ==
  IF sorted = <<>> THEN <<t>>
  ELSE IF Head(sorted).exitTime[1] <= t.exitTime[1]
       THEN <<Head(sorted)>> \o InsertByExit(Tail(sorted), t)
       ELSE <<t>> \o sorted

\* mutant: no sort, the trades stay in the order of the ledger
SortByExit_ledgerOrder(ts) == ts

RECURSIVE SortByExit(_)
\* [...closedTrades].sort((a, b) => exit(a) - exit(b)): ascending in the
\* exit time, trades of equal exit time in the order of the ledger
SortByExit(ts) ==
  IF ts = <<>> THEN <<>>
  ELSE InsertByExit(SortByExit(SubSeq(ts, 1, Len(ts) - 1)), ts[Len(ts)])

RECURSIVE DrawdownLoop(_, _, _, _)
\* the replay loop of calculateMaxDrawdown
DrawdownLoop(sorted, equity, peak, maxDrawdown) ==
  IF sorted = <<>> THEN maxDrawdown
  ELSE LET e == equity + pnlOrZero(Head(sorted))
           p == IF e > peak THEN e ELSE peak
           drawdown == drawdownPercent(p - e, p)
       IN  DrawdownLoop(Tail(sorted), e, p,
                        IF drawdown > maxDrawdown THEN drawdown
                        ELSE maxDrawdown)

\* mutant: the trades are replayed in the order of the ledger
calculateMaxDrawdown_ledgerOrder(closedTrades, st) ==
  LET hasExit(t) == ~IsNull(t.exitTime)
  IN  IF Len(closedTrades) = 0 THEN 0
      ELSE DrawdownLoop(SelectSeq(closedTrades, hasExit),
                        st.startingCapital, st.startingCapital, 0)

\* calculateMaxDrawdown, as a percentage with two decimals
calculateMaxDrawdown(closedTrades, st) ==
  LET hasExit(t) == ~IsNull(t.exitTime)
  IN  IF Len(closedTrades) = 0 THEN 0
      ELSE DrawdownLoop(SortByExit(SelectSeq(closedTrades, hasExit)),
                        st.startingCapital, st.startingCapital, 0)

\* calculatePrimaryMetrics, but for the Sharpe ratio (a square root)
calculatePrimaryMetrics(ts, st) ==
  LET closedTrades == getClosedTrades(ts)
      openTrades == getOpenTrades(ts, st)
      isWin(t) == pnlOrZero(t) > 0
      isLoss(t) == pnlOrZero(t) <= 0
      wins == SelectSeq(closedTrades, isWin)
      losses == SelectSeq(closedTrades, isLoss)
      avgWin == IF Len(wins) > 0 THEN SumPnl(wins) \div Len(wins) ELSE 0
      avgLoss == IF Len(losses) > 0
                 THEN Abs(SumPnl(losses)) \div Len(losses)
                 ELSE 1 * Scale
  IN  [ winRate |-> IF Len(closedTrades) > 0
                    THEN percentOf(Len(wins), Len(closedTrades)) ELSE 0,
        avgWinLossRatio |-> IF avgLoss > 0
                            THEN (avgWin * Scale) \div avgLoss
                            ELSE avgWin,
        maxDrawdown |-> calculateMaxDrawdown(closedTrades, st),
        totalRealizedPnl |-> SumPnl(closedTrades),
        totalUnrealizedPnl |-> SumUnrealized(openTrades),
        totalTrades |-> Len(closedTrades),
        wins |-> Len(wins),
        losses |-> Len(losses) ]

\* calculateSecondaryMetrics: the alert counts and the ratio of trades to
\* alerts (two decimals)
calculateSecondaryMetrics(ts, st, totalAlerts) ==
  [ signalToTradeRatio |-> IF totalAlerts > 0
                           THEN (Len(ts) * Scale) \div totalAlerts
                           ELSE 1 * Scale,
    alertsReceived |-> totalAlerts ]

\* calculateMetaMetrics: the days since the first trade and the capital
\* deployed
\* the length of an edge-decay window in days, and the points of win rate
\* beyond which a trend is reported
EdgeWindowDays == 30
EdgeTrendPoints == 5

\* calculateEdgeDecay at time t: the win rates of the closed trades that
\* exited in the last 30 days and in the 30 days before, and the trends.
\* winRateDiff is compared with 5 on the rates' common denominator (the
\* reported rates are cut to two decimals, the comparison is not);
\* sharpeTrend is the constant the code assigns
calculateEdgeDecay(closedTrades, t) ==
  LET thirtyDaysAgo == t - EdgeWindowDays * HoursPerDay
      sixtyDaysAgo == t - 2 * EdgeWindowDays * HoursPerDay
      inLast30(x) == ~IsNull(x.exitTime) /\ x.exitTime[1] >= thirtyDaysAgo
      inPrev30(x) == /\ ~IsNull(x.exitTime)
                     /\ x.exitTime[1] >= sixtyDaysAgo
                     /\ x.exitTime[1] < thirtyDaysAgo
      isWin(x) == pnlOrZero(x) > 0
      last30 == SelectSeq(closedTrades, inLast30)
      prev30 == SelectSeq(closedTrades, inPrev30)
      last30Wins == SelectSeq(last30, isWin)
      prev30Wins == SelectSeq(prev30, isWin)
      n1 == Max(Len(last30), 1)
      n2 == Max(Len(prev30), 1)
      winRateDiff == 100 * (Len(last30Wins) * n2 - Len(prev30Wins) * n1)
  IN  [ winRateTrend |->
          IF winRateDiff < (0 - EdgeTrendPoints) * n1 * n2 THEN "declining"
          ELSE IF winRateDiff > EdgeTrendPoints * n1 * n2 THEN "improving"
          ELSE "stable",
        sharpeTrend |-> "stable",
        last30DaysWinRate |->
          IF Len(last30) > 0 THEN percentOf(Len(last30Wins), Len(last30))
          ELSE 0,
        previous30DaysWinRate |->
          IF Len(prev30) > 0 THEN percentOf(Len(prev30Wins), Len(prev30))
          ELSE 0 ]

calculateMetaMetrics(ts, st, t) ==
  [ daysActive |-> IF Len(ts) > 0
                   THEN (t - ts[1].entryTime) \div HoursPerDay ELSE 0,
    edgeDecay |-> calculateEdgeDecay(getClosedTrades(ts), t),
    totalCapitalDeployed |-> SumNotional(ts) ]

\* calculateDashboardMetrics on the data files: what it returns and the
\* ledger and the account state it leaves
calculateDashboardMetrics(ts, st, totalAlerts, t) ==
  [ trades |-> ts,
    state |-> st,
    metrics |-> [ primary |-> calculatePrimaryMetrics(ts, st),
                  secondary |-> calculateSecondaryMetrics(ts, st, totalAlerts),
                  meta |-> calculateMetaMetrics(ts, st, t),
                  lastCalculated |-> t ] ]

\* snapshots.findIndex(s => s.date === today): the first position, 0 for -1
findIndex(snaps, today) ==
  LET hits == {k \in 1..Len(snaps) : snaps[k].date = today}
  IN  IF hits = {} THEN 0
      ELSE CHOOSE k \in hits : \A j \in hits : k <= j

\* the DailySnapshot that captureDailySnapshot builds
dailySnapshot(ts, st, t) ==
  LET today == DateOf(t)
      isClosedToday(x) == ~IsNull(x.exitTime) /\ DateOf(x.exitTime[1]) = today
      inLast7Days(x) ==
        ~IsNull(x.exitTime) /\ x.exitTime[1] >= t - 7 * HoursPerDay
      isWin(x) == pnlOrZero(x) > 0
      last7Days == SelectSeq(ts, inLast7Days)
  IN  [ date |-> today,
        equity |-> st.currentEquity,
        dailyPnl |-> SumPnl(SelectSeq(ts, isClosedToday)),
        openPositions |-> Len(st.openPositions),
        rolling7dWinRate |->
          IF Len(last7Days) > 0
          THEN percentOf(Len(SelectSeq(last7Days, isWin)), Len(last7Days))
          ELSE 0,
        rolling7dSharpe |-> 0 ]

\* mutant: the snapshot is pushed without looking for today's record
captureDailySnapshot_alwaysPushes(ts, st, snaps, t) ==
  [ trades |-> ts,
    state |-> st,
    snapshots |-> Append(snaps, dailySnapshot(ts, st, t)),
    snapshot |-> dailySnapshot(ts, st, t) ]

\* mutant: the capture takes the day's equity as the new peak and saves it
captureDailySnapshot_resetsPeak(ts, st, snaps, t) ==
  LET snapshot == dailySnapshot(ts, st, t)
      existingIndex == findIndex(snaps, snapshot.date)
  IN  [ trades |-> ts,
        state |-> [st EXCEPT !.peakEquity = st.currentEquity],
        snapshots |-> IF existingIndex >= 1
                      THEN [snaps EXCEPT ![existingIndex] = snapshot]
                      ELSE Append(snaps, snapshot),
        snapshot |-> snapshot ]

\* captureDailySnapshot on the data files: the snapshot it returns, the
\* snapshot list it saves, and the ledger and the account state it leaves
captureDailySnapshot(ts, st, snaps, t) ==
  LET snapshot == dailySnapshot(ts, st, t)
      existingIndex == findIndex(snaps, snapshot.date)
  IN  [ trades |-> ts,
        state |-> st,
        snapshots |-> IF existingIndex >= 1
                      THEN [snaps EXCEPT ![existingIndex] = snapshot]
                      ELSE Append(snaps, snapshot),
        snapshot |-> snapshot ]

\* ---------------------------------------------------------------- actions
Alerts ==
  [ type       : AlertTypes,
    coin       : Coins,
    direction  : Directions,
    currentApr : AlertAprValues,
    impliedApr : AlertAprValues,
    zScore     : ZScores,
    holdDays   : HoldDaysValues ]

Init ==
  /\ procs = NoProcs
  /\ call = NoCall
  /\ snapshots = <<>>
  /\ trades = <<>>
  /\ state = DefaultState(0)
  /\ alertsLog = 0
  /\ now = 0
  /\ \E env \in Environments :
       /\ riskConfig = env.risk
       /\ leverageConfig = env.leverage
  /\ positionSize \in {Some(p) : p \in PositionSizes}

\* onAlert in MANUAL mode: the alert is logged, no trade is opened
OnAlertManual ==
  /\ alertsLog < MaxAlerts
  /\ alertsLog' = alertsLog + 1
  /\ UNCHANGED <<trades, state, now, riskConfig, leverageConfig,
                 positionSize, procs, call, snapshots>>

\* mutant: openTrade does not log the alert
OnAlertAuto_noLog ==
  \E alert \in Alerts :
    LET r == openTrade(alert, state, trades, riskConfig, leverageConfig,
                       positionSize, now)
    IN  /\ alertsLog < MaxAlerts
        /\ \/ Len(trades) < MaxTrades
           \/ ~canOpenTrade(state, trades, alert.coin, riskConfig,
                            now).allowed
        /\ trades' = r.trades
        /\ state' = r.state
        /\ UNCHANGED <<alertsLog, now, riskConfig, leverageConfig,
                       positionSize, procs, call, snapshots>>

\* onAlert in AUTO mode: openTrade logs the alert, runs the risk check and
\* opens the trade if it passes; a TypeError from the risk check leaves the
\* alert logged and nothing else (manualOpen reaches openTrade the same way,
\* with an alert it builds from the command line)
OnAlertAuto ==
  \E alert \in Alerts :
    LET r == openTrade(alert, state, trades, riskConfig, leverageConfig,
                       positionSize, now)
    IN  /\ alertsLog < MaxAlerts
        /\ \/ Len(trades) < MaxTrades
           \/ ~canOpenTrade(state, trades, alert.coin, riskConfig,
                            now).allowed
        /\ alertsLog' = alertsLog + 1
        /\ trades' = r.trades
        /\ state' = r.state
        /\ UNCHANGED <<now, riskConfig, leverageConfig, positionSize, procs, call, snapshots>>

\* updateUnrealizedPnl: marks every open trade whose rate fetch succeeds and
\* saves the ledger
Mark ==
  LET open == OpenIdx(trades, state)
  IN  \E fetch \in [Range(open) -> FetchResults] :
        /\ trades' = MarkLoop(open, fetch, trades, now)
        /\ UNCHANGED <<state, alertsLog, now, riskConfig, leverageConfig,
                       positionSize, procs, call, snapshots>>

\* processCommand: the time-based exits, then the stop-losses selected on
\* the ledger and state that the first loop left
Process ==
  LET due == getTradesDueForExit(trades, state, now)
  IN  \E fetch1 \in [Range(due) -> FetchResults],
         stats1 \in [Range(due) -> StatsValues] :
        LET mid == CloseLoop(due, fetch1, stats1, "TIME_BASED",
                             trades, state, now)
            atStop == getTradesAtStopLoss(mid.trades, mid.state, riskConfig)
        IN  \E fetch2 \in [Range(atStop) -> FetchResults],
               stats2 \in [Range(atStop) -> StatsValues] :
              LET end == CloseLoop(atStop, fetch2, stats2, "STOP_LOSS",
                                   mid.trades, mid.state, now)
              IN  /\ trades' = end.trades
                  /\ state' = end.state
                  /\ UNCHANGED <<alertsLog, now, riskConfig,
                                 leverageConfig, positionSize, procs, call, snapshots>>

\* the ids a user may type: any non-empty prefix of a generated id, and one
\* that matches nothing
TradeIdArgs ==
  {SubSeq(UUID(k), 1, n) : k \in 1..(MaxTrades + 1), n \in 1..2}
    \cup {<<0>>}

\* trades.find(t => t.id.startsWith(tradeId)): the first match, 0 if none
FindByPrefix(ts, tradeId) ==
  LET hits == {i \in 1..Len(ts) : startsWith(ts[i].id, tradeId)}
  IN  IF hits = {} THEN 0
      ELSE CHOOSE i \in hits : \A j \in hits : i <= j

\* mutant: the manual close does not look at the trade's status
closeCommand_noStatusGuard(tradeId, fetch, stats, st, ts, t) ==
  LET i == FindByPrefix(ts, tradeId)
  IN  IF \/ tradeId = <<>>
         \/ i = 0
         \/ IsNull(fetch)
      THEN [trades |-> ts, state |-> st]
      ELSE closeTrade(i, st, ts, fetch[1], exitZScoreOf(stats, fetch[1]),
                      "MANUAL", t)

\* closeCommand on the data files: the ledger and the account it leaves
closeCommand(tradeId, fetch, stats, st, ts, t) ==
  LET i == FindByPrefix(ts, tradeId)
  IN  IF \/ tradeId = <<>>
         \/ i = 0
         \/ ts[i].status = "CLOSED"
         \/ IsNull(fetch)
      THEN [trades |-> ts, state |-> st]
      ELSE closeTrade(i, st, ts, fetch[1], exitZScoreOf(stats, fetch[1]),
                      "MANUAL", t)

\* mutant: the manual close does not look at the trade's status
CloseCommand_noStatusGuard ==
  \E tradeId \in TradeIdArgs \cup {<<>>}, fetch \in FetchResults,
     stats \in StatsValues :
    LET i == FindByPrefix(trades, tradeId)
    IN  IF \/ tradeId = <<>>
           \/ i = 0
           \/ IsNull(fetch)
        THEN UNCHANGED vars
        ELSE LET r == closeTrade(i, state, trades, fetch[1],
                                 exitZScoreOf(stats, fetch[1]), "MANUAL", now)
             IN  /\ trades' = r.trades
                 /\ state' = r.state
                 /\ UNCHANGED <<alertsLog, now, riskConfig, leverageConfig,
                                positionSize, procs, call, snapshots>>

\* closeCommand: a manual close of the first trade whose id starts with the
\* argument; nothing happens when the argument is missing, no trade matches,
\* the trade is already CLOSED or the rate fetch fails
CloseCommand ==
  \E tradeId \in TradeIdArgs \cup {<<>>}, fetch \in FetchResults,
     stats \in StatsValues :
    LET i == FindByPrefix(trades, tradeId)
    IN  IF \/ tradeId = <<>>
           \/ i = 0
           \/ trades[i].status = "CLOSED"
           \/ IsNull(fetch)
        THEN UNCHANGED vars
        ELSE LET r == closeTrade(i, state, trades, fetch[1],
                                 exitZScoreOf(stats, fetch[1]), "MANUAL", now)
             IN  /\ trades' = r.trades
                 /\ state' = r.state
                 /\ UNCHANGED <<alertsLog, now, riskConfig, leverageConfig,
                                positionSize, procs, call, snapshots>>

\* a day passes
Tick ==
  /\ now < MaxDays * HoursPerDay
  /\ now' = now + HoursPerDay
  /\ UNCHANGED <<trades, state, alertsLog, riskConfig, leverageConfig,
                 positionSize, procs, call, snapshots>>

Next ==
  \/ OnAlertManual
  \/ OnAlertAuto
  \/ Mark
  \/ Process
  \/ CloseCommand
  \/ Tick

Spec == Init /\ [][Next]_vars

\* ------------------------------------------- the risk checks under pressure
\* environments in which several risk checks fail in the same state:
\* PAPER_MAX_LEVERAGE=6 sets both leverage caps, so that a 3.0 sigma signal
\* opens 6x the collateral
RiskEnvironments ==
  { [risk     |-> [RiskConfig(2, 1) EXCEPT !.maxTotalExposure = 100,
                                           !.maxLeverage = 6 * Scale],
     leverage |-> LeverageConfig("signal_strength"),
     size     |-> DEFAULT_POSITION_SIZE],
    [risk     |-> [RiskConfig(1, 1) EXCEPT !.maxLeverage = 6 * Scale],
     leverage |-> LeverageConfig("signal_strength"),
     size     |-> DEFAULT_POSITION_SIZE] }

RiskInit ==
  /\ procs = NoProcs
  /\ call = NoCall
  /\ snapshots = <<>>
  /\ trades = <<>>
  /\ state = DefaultState(0)
  /\ alertsLog = 0
  /\ now = 0
  /\ \E env \in RiskEnvironments :
       /\ riskConfig = env.risk
       /\ leverageConfig = env.leverage
       /\ positionSize = Some(env.size)

RiskSpec == RiskInit /\ [][Next]_vars

\* ------------------------------------- two processes on the same data files
\* The monitor process runs onAlert in AUTO mode while the CLI process runs
\* processCommand or closeCommand. Every read and every write of a data file
\* is a step of its own; the steps of the two processes interleave freely.
\* The files hold one open trade that is due when the processes start, so
\* the loops of processCommand run at most once.
ProcEnvironments == {env \in Environments : env.risk.consecutiveLossLimit > 0}

ProcInit ==
  \E env \in ProcEnvironments, alert \in Alerts, size \in PositionSizes :
    LET r == openTrade(alert, DefaultState(0), <<>>, env.risk, env.leverage,
                       Some(size), 0)
        disk == [trades |-> r.trades, state |-> r.state]
    IN  /\ trades = disk.trades
        /\ state = disk.state
        /\ alertsLog = 1
        /\ now = alert.holdDays * HoursPerDay
        /\ riskConfig = env.risk
        /\ leverageConfig = env.leverage
        /\ positionSize = Some(size)
        /\ procs = [NoProcs EXCEPT !.start = Some(disk)]
        /\ call = NoCall
        /\ snapshots = <<>>

\* onAlert: const trades = loadTrades()
MonitorLoadTrades ==
  /\ procs.monitor.pc = "idle"
  /\ \E alert \in Alerts :
       procs' = [procs EXCEPT !.monitor =
                   [pc |-> "trades_loaded", trades |-> trades,
                    state |-> Null, arg |-> Some(alert)]]
  /\ UNCHANGED <<trades, state, alertsLog, now, riskConfig, leverageConfig,
                 positionSize, call, snapshots>>

\* onAlert: const state = loadState()
MonitorLoadState ==
  /\ procs.monitor.pc = "trades_loaded"
  /\ procs' = [procs EXCEPT !.monitor.pc = "loaded",
                            !.monitor.state = Some(state)]
  /\ UNCHANGED <<trades, state, alertsLog, now, riskConfig, leverageConfig,
                 positionSize, call, snapshots>>

\* openTrade: logAlert(alert)
MonitorLogAlert ==
  /\ procs.monitor.pc = "loaded"
  /\ alertsLog' = alertsLog + 1
  /\ procs' = [procs EXCEPT !.monitor.pc = "logged"]
  /\ UNCHANGED <<trades, state, now, riskConfig, leverageConfig,
                 positionSize, call, snapshots>>

\* openTrade: the risk check on the in-memory copies, then the mutation of
\* the copies and saveTrades(trades); a rejection ends the command
MonitorSaveTrades ==
  /\ procs.monitor.pc = "logged"
  /\ LET m == procs.monitor
          r == openTrade(m.arg[1], m.state[1], m.trades, riskConfig,
                         leverageConfig, positionSize, now)
     IN  IF IsNull(r.trade)
         THEN /\ procs' = [procs EXCEPT !.monitor.pc = "done"]
              /\ UNCHANGED trades
         ELSE /\ procs' = [procs EXCEPT !.monitor.pc = "trades_saved",
                                        !.monitor.trades = r.trades,
                                        !.monitor.state = Some(r.state)]
              /\ trades' = r.trades
  /\ UNCHANGED <<state, alertsLog, now, riskConfig, leverageConfig,
                 positionSize, call, snapshots>>

\* openTrade: saveState(state)
MonitorSaveState ==
  /\ procs.monitor.pc = "trades_saved"
  /\ state' = procs.monitor.state[1]
  /\ procs' = [procs EXCEPT !.monitor.pc = "done"]
  /\ UNCHANGED <<trades, alertsLog, now, riskConfig, leverageConfig,
                 positionSize, call, snapshots>>

\* processCommand, closeCommand: const trades = loadTrades()
CliLoadTrades ==
  /\ procs.cli.pc = "idle"
  /\ \E cmd \in {"process", "close"} :
       procs' = [procs EXCEPT !.cli =
                   [pc |-> "trades_loaded", trades |-> trades,
                    state |-> Null,
                    arg |-> Some([cmd |-> cmd, i |-> 0, apr |-> Null,
                                  stats |-> Null])]]
  /\ UNCHANGED <<trades, state, alertsLog, now, riskConfig, leverageConfig,
                 positionSize, call, snapshots>>

\* processCommand, closeCommand: const state = loadState()
CliLoadState ==
  /\ procs.cli.pc = "trades_loaded"
  /\ procs' = [procs EXCEPT !.cli.pc = "loaded",
                            !.cli.state = Some(state)]
  /\ UNCHANGED <<trades, state, alertsLog, now, riskConfig, leverageConfig,
                 positionSize, call, snapshots>>

\* the trade the command selects on its in-memory copies (0 if none), and
\* await fetchCurrentApr(trade.coin): a null rate ends the command
CliFetch ==
  /\ procs.cli.pc = "loaded"
  /\ \E tradeId \in TradeIdArgs, fetch \in FetchResults,
        stats \in StatsValues :
       LET c == procs.cli
           due == getTradesDueForExit(c.trades, c.state[1], now)
           found == FindByPrefix(c.trades, tradeId)
           i == IF c.arg[1].cmd = "process"
                THEN IF due = <<>> THEN 0 ELSE Head(due)
                ELSE IF found = 0 THEN 0
                     ELSE IF c.trades[found].status = "CLOSED" THEN 0
                     ELSE found
       IN  IF i = 0 \/ IsNull(fetch)
           THEN procs' = [procs EXCEPT !.cli.pc = "done"]
           ELSE procs' = [procs EXCEPT
                            !.cli.pc = "fetched",
                            !.cli.arg = Some([c.arg[1] EXCEPT
                                                !.i = i, !.apr = fetch,
                                                !.stats = stats])]
  /\ UNCHANGED <<trades, state, alertsLog, now, riskConfig, leverageConfig,
                 positionSize, call, snapshots>>

\* the close a CLI command performs on a ledger and a state
CliClose(arg, st, ts, t) ==
  closeTrade(arg.i, st, ts, arg.apr[1], exitZScoreOf(arg.stats, arg.apr[1]),
             IF arg.cmd = "process" THEN "TIME_BASED" ELSE "MANUAL", t)

\* closeTrade: the mutation of the in-memory copies and saveTrades(trades)
CliSaveTrades ==
  /\ procs.cli.pc = "fetched"
  /\ LET c == procs.cli
         r == CliClose(c.arg[1], c.state[1], c.trades, now)
     IN  /\ procs' = [procs EXCEPT !.cli.pc = "trades_saved",
                                   !.cli.trades = r.trades,
                                   !.cli.state = Some(r.state)]
         /\ trades' = r.trades
  /\ UNCHANGED <<state, alertsLog, now, riskConfig, leverageConfig,
                 positionSize, call, snapshots>>

\* closeTrade: saveState(state)
CliSaveState ==
  /\ procs.cli.pc = "trades_saved"
  /\ state' = procs.cli.state[1]
  /\ procs' = [procs EXCEPT !.cli.pc = "done"]
  /\ UNCHANGED <<trades, alertsLog, now, riskConfig, leverageConfig,
                 positionSize, call, snapshots>>

ProcNext ==
  \/ MonitorLoadTrades
  \/ MonitorLoadState
  \/ MonitorLogAlert
  \/ MonitorSaveTrades
  \/ MonitorSaveState
  \/ CliLoadTrades
  \/ CliLoadState
  \/ CliFetch
  \/ CliSaveTrades
  \/ CliSaveState

ProcSpec == ProcInit /\ [][ProcNext]_vars

\* ------------------------------------- the functions on drawn fixtures
\* the exported functions applied to arguments and environments drawn from
\* the sets below: calculateLeverage on its own, and openTrade followed by
\* closeTrade on the data files
FnMaxTrades == 2

FnStrategies ==
  {"fixed", "signal_strength", "profit_stack", "combined", "martingale"}
\* PAPER_FIXED_LEVERAGE and PAPER_MAX_LEVERAGE (two decimals)
FnFixedLeverages == {100, 1000}
FnMaxLeverages == {50, 100, 300, 600, 1000}
FnLeverageConfigs ==
  [strategy : FnStrategies, fixedLeverage : FnFixedLeverages,
   maxLeverage : FnMaxLeverages]
\* z-scores at, next to and away from the steps at 2.0, 2.5 and 3.0 sigma
FnZScores == {-500, -250, 0, 199, 200, 249, 250, 299, 300, 500}
\* current equities at, next to and away from 0.9, 1.1 and 1.2 of the
\* starting equity
FnEquities ==
  {e * Scale : e \in {8000, 9000, 9001, 10000, 10999, 11000, 11999, 12000,
                      15000}}
FnLeverageArgs ==
  [zScore : FnZScores, currentEquity : FnEquities,
   startingEquity : {DEFAULT_STARTING_CAPITAL}]

\* environments of the trade fixtures: PAPER_MAX_LEVERAGE sets the cap of
\* the risk configuration and of the leverage configuration at once
FnEnvironments ==
  { [risk     |-> [RiskConfig(2, 2) EXCEPT !.maxLeverage = 5 * Scale],
     leverage |-> [strategy |-> "fixed", fixedLeverage |-> 5 * Scale,
                   maxLeverage |-> 5 * Scale]],
    [risk     |-> RiskConfig(2, 2),
     leverage |-> LeverageConfig("signal_strength")],
    [risk     |-> RiskConfig(2, 2),
     leverage |-> LeverageConfig("combined")],
    [risk     |-> [RiskConfig(2, 2) EXCEPT !.maxLeverage = 50],
     leverage |-> [strategy |-> "profit_stack", fixedLeverage |-> 1 * Scale,
                   maxLeverage |-> 50]] }
\* the positionSize argument: left out, below and above the size cap
FnPositionSizes == {Null, Some(500 * Scale), Some(5000 * Scale)}
\* alerts at 15% APR with a week's hold
FnAlerts ==
  [ type       : AlertTypes,
    coin       : {"HYPE"},
    direction  : Directions,
    currentApr : {15},
    impliedApr : {15},
    zScore     : {150, 250, 300},
    holdDays   : {7} ]
\* exit rates: 5% and 15% APR, and rates that move a tenth of the notional
\* or more in a week
FnExitAprs == {5, 15, 0 - 600, 1200}
\* a week
FnHoursHeld == {168}
\* fixtures of calculatePnl: rates of -5%, 2% and 10% APR, a day and a week
\* of funding on 1,000 and 10,000 of notional; amounts are cut to the cent,
\* and the smallest accrual of these fixtures is above a cent
FnPnlRates == {0 - 5, 2, 10}
FnPnlNotionals == {1000 * Scale, 10000 * Scale}
FnPnlHours == {24, 168}
FnPnlArgs ==
  [entryApr : FnPnlRates, currentApr : FnPnlRates,
   notionalSize : FnPnlNotionals, hoursHeld : FnPnlHours]
\* fixtures of calculateMaxDrawdown: up to FnMaxReplay closed trades in
\* ledger order, each a gain of 500, a loss of 1,500 or a gain of 800, with
\* exit times in any order, equal ones included
FnMaxReplay == 3
FnReplayPnls == {500 * Scale, 0 - 1500 * Scale, 800 * Scale}
FnReplayTrade(exitTime, realizedPnl) ==
  [status |-> "CLOSED", exitTime |-> Some(exitTime),
   realizedPnl |-> Some(realizedPnl)]
FnReplayLedgers ==
  UNION {[1..n -> {FnReplayTrade(x, p) : x \in 1..n, p \in FnReplayPnls}] :
           n \in 0..FnMaxReplay}
\* fixtures of calculateEdgeDecay, called 70 days after the first exit day:
\* closed trades that exited more than 60 days ago, exactly 60 days ago, in
\* the window before the last, exactly 30 days ago and yesterday; and ledgers
\* with given numbers of wins and losses in the two windows, among them win
\* rates 5 points apart (25% and 20%) and 10 points apart (60% and 50%)
FnMaxEdge == 2
FnEdgeNow == 70 * HoursPerDay
FnEdgeExitDays == {9, 10, 39, 40, 69}
FnEdgeTrades ==
  {FnReplayTrade(d * HoursPerDay, p) : d \in FnEdgeExitDays,
                                       p \in FnReplayPnls}
FnEdgeCounts ==
  { [w1 |-> 1, l1 |-> 3, w2 |-> 1, l2 |-> 4],
    [w1 |-> 1, l1 |-> 4, w2 |-> 1, l2 |-> 3],
    [w1 |-> 3, l1 |-> 2, w2 |-> 1, l2 |-> 1],
    [w1 |-> 1, l1 |-> 1, w2 |-> 3, l2 |-> 2] }
FnEdgeCounted(c) ==
  [k \in 1..c.w1 |-> FnReplayTrade(69 * HoursPerDay, 500 * Scale)]
    \o [k \in 1..c.l1 |-> FnReplayTrade(69 * HoursPerDay, 0 - 1500 * Scale)]
    \o [k \in 1..c.w2 |-> FnReplayTrade(39 * HoursPerDay, 500 * Scale)]
    \o [k \in 1..c.l2 |-> FnReplayTrade(39 * HoursPerDay, 0 - 1500 * Scale)]
FnEdgeLedgers ==
  UNION {[1..n -> FnEdgeTrades] : n \in 0..FnMaxEdge}
    \cup {FnEdgeCounted(c) : c \in FnEdgeCounts}

\* fixtures of loadTrades and loadState: a data file is missing, unreadable,
\* not JSON, or the JSON of a value
FnFiles(values) ==
  {[kind |-> k, value |-> Null] :
     k \in {"missing", "unreadable", "unparseable"}}
    \cup {[kind |-> "json", value |-> Some(v)] : v \in values}
FnTradesFiles ==
  FnFiles({<<>>, <<FnReplayTrade(1, 500 * Scale)>>,
           <<FnReplayTrade(1, 0 - 1500 * Scale),
             FnReplayTrade(2, 800 * Scale)>>})
FnStateFiles ==
  FnFiles({DefaultState(0),
           [DefaultState(0) EXCEPT !.currentEquity = 9000 * Scale],
           [DefaultState(0) EXCEPT !.currentEquity = 10500 * Scale,
                                   !.peakEquity = 10500 * Scale,
                                   !.openPositions = <<UUID(2)>>]})

FnInit ==
  /\ procs = NoProcs
  /\ snapshots = <<>>
  /\ trades = <<>>
  /\ state = DefaultState(0)
  /\ alertsLog = 0
  /\ now = 0
  /\ \/ /\ riskConfig = RiskConfig(2, 2)
        /\ leverageConfig \in FnLeverageConfigs
        /\ positionSize = Null
        /\ \E args \in FnLeverageArgs :
             call = [fn |-> "calculateLeverage", args |-> Some(args),
                     result |-> Null]
     \/ /\ \E env \in FnEnvironments :
             /\ riskConfig = env.risk
             /\ leverageConfig = env.leverage
        /\ positionSize \in FnPositionSizes
        /\ call = [fn |-> "openTrade", args |-> Null, result |-> Null]
     \/ /\ riskConfig = RiskConfig(2, 2)
        /\ leverageConfig = LeverageConfig("fixed")
        /\ positionSize = Null
        /\ \/ \E args \in FnPnlArgs :
                call = [fn |-> "calculatePnl", args |-> Some(args),
                        result |-> Null]
           \/ \E ledger \in FnReplayLedgers :
                call = [fn |-> "calculateMaxDrawdown",
                        args |-> Some(ledger), result |-> Null]
           \/ \E ledger \in FnEdgeLedgers :
                call = [fn |-> "calculateEdgeDecay",
                        args |-> Some(ledger), result |-> Null]
           \/ \E file \in FnTradesFiles :
                call = [fn |-> "loadTrades", args |-> Some(file),
                        result |-> Null]
           \/ \E file \in FnStateFiles :
                call = [fn |-> "loadState", args |-> Some(file),
                        result |-> Null]

\* calculateLeverage(config, zScore, currentEquity, startingEquity)
CallCalculateLeverage ==
  /\ call.fn = "calculateLeverage"
  /\ IsNull(call.result)
  /\ call' = [call EXCEPT !.result =
                Some(calculateLeverage(leverageConfig, call.args[1].zScore,
                                       call.args[1].currentEquity,
                                       call.args[1].startingEquity))]
  /\ UNCHANGED <<trades, state, alertsLog, now, riskConfig, leverageConfig,
                 positionSize, procs, snapshots>>

\* openTrade(alert, state, trades, riskConfig, positionSize) on the data
\* files, first or after a close
CallOpenTrade ==
  /\ \/ call.fn = "openTrade" /\ IsNull(call.args)
     \/ call.fn = "closeTrade"
  /\ Len(trades) < FnMaxTrades
  /\ \E alert \in FnAlerts :
       LET r == openTrade(alert, state, trades, riskConfig, leverageConfig,
                          positionSize, now)
       IN  /\ alertsLog' = alertsLog + 1
           /\ trades' = r.trades
           /\ state' = r.state
           /\ call' = [fn |-> "openTrade", args |-> Some(alert),
                       result |-> r.trade]
  /\ UNCHANGED <<now, riskConfig, leverageConfig, positionSize, procs, snapshots>>

\* closeTrade(trade, state, trades, exitApr, exitZScore, exitReason) on the
\* trade that was opened, a week later
CallCloseTrade ==
  /\ call.fn = "openTrade"
  /\ ~IsNull(call.result)
  /\ \E exitApr \in FnExitAprs, hoursHeld \in FnHoursHeld :
       LET r == closeTrade(Len(trades), state, trades, exitApr, 0, "MANUAL",
                           now + hoursHeld)
       IN  /\ now' = now + hoursHeld
           /\ trades' = r.trades
           /\ state' = r.state
           /\ call' = [fn |-> "closeTrade",
                       args |-> Some([exitApr |-> exitApr,
                                      hoursHeld |-> hoursHeld]),
                       result |-> Some(r.trades[Len(trades)])]
  /\ UNCHANGED <<alertsLog, riskConfig, leverageConfig, positionSize, procs, snapshots>>

\* calculatePnl(trade, currentApr, hoursHeld) on a SHORT and on a LONG trade
\* with the same entry rate and notional
CallCalculatePnl ==
  /\ call.fn = "calculatePnl"
  /\ IsNull(call.result)
  /\ LET a == call.args[1]
         trade(d) == [direction |-> d, entryApr |-> a.entryApr,
                      notionalSize |-> a.notionalSize]
     IN  call' = [call EXCEPT !.result =
                    Some([d \in Directions |->
                            calculatePnl(trade(d), a.currentApr,
                                         a.hoursHeld)])]
  /\ UNCHANGED <<trades, state, alertsLog, now, riskConfig, leverageConfig,
                 positionSize, procs, snapshots>>

\* calculateMaxDrawdown(closedTrades, state) on the closed trades of a
\* fixture ledger and the default account
CallCalculateMaxDrawdown ==
  /\ call.fn = "calculateMaxDrawdown"
  /\ IsNull(call.result)
  /\ call' = [call EXCEPT !.result =
                Some(calculateMaxDrawdown(getClosedTrades(call.args[1]),
                                          state))]
  /\ UNCHANGED <<trades, state, alertsLog, now, riskConfig, leverageConfig,
                 positionSize, procs, snapshots>>

\* calculateEdgeDecay(closedTrades) on the closed trades of a fixture
\* ledger, at the fixtures' time
CallCalculateEdgeDecay ==
  /\ call.fn = "calculateEdgeDecay"
  /\ IsNull(call.result)
  /\ call' = [call EXCEPT !.result =
                Some(calculateEdgeDecay(getClosedTrades(call.args[1]),
                                        FnEdgeNow))]
  /\ UNCHANGED <<trades, state, alertsLog, now, riskConfig, leverageConfig,
                 positionSize, procs, snapshots>>

\* closeCommand with an id typed, on the data files that opens and closes
\* have left
CallCloseCommand ==
  /\ \/ call.fn = "openTrade" /\ ~IsNull(call.args)
     \/ call.fn = "closeTrade"
  /\ \E tradeId \in TradeIdArgs \cup {<<>>}, fetch \in FetchResults,
        stats \in StatsValues :
       LET r == closeCommand(tradeId, fetch, stats, state, trades, now)
       IN  /\ trades' = r.trades
           /\ state' = r.state
           /\ call' = [fn |-> "closeCommand",
                       args |-> Some([tradeId |-> tradeId, fetch |-> fetch,
                                      trades |-> trades, state |-> state]),
                       result |-> Null]
  /\ UNCHANGED <<alertsLog, now, riskConfig, leverageConfig, positionSize,
                 procs, snapshots>>

\* loadTrades() and loadState() on a fixture file
CallLoad ==
  /\ call.fn \in {"loadTrades", "loadState"}
  /\ IsNull(call.result)
  /\ call' = [call EXCEPT !.result =
                Some(IF call.fn = "loadTrades"
                     THEN loadTrades(call.args[1])
                     ELSE loadState(call.args[1], now))]
  /\ UNCHANGED <<trades, state, alertsLog, now, riskConfig, leverageConfig,
                 positionSize, procs, snapshots>>

FnNext ==
  \/ CallCalculateLeverage
  \/ CallCalculatePnl
  \/ CallCalculateMaxDrawdown
  \/ CallCalculateEdgeDecay
  \/ CallLoad
  \/ CallOpenTrade
  \/ CallCloseTrade
  \/ CallCloseCommand

FnSpec == FnInit /\ [][FnNext]_vars

\* ------------------------------------- the commands and the rates they see
\* The commands of the trade lifecycle, each recorded in `call` with the
\* funding rate of the venue for the coin of every open trade (market) and,
\* for every fetch the command makes, whether it succeeded. The clock moves
\* by half days, so that a position can be under water before it is due.
\* ------------------------------------- a mark next to a CLI command
\* updateUnrealizedPnl runs in the long-running process on the ledger and
\* the account it loaded, and is suspended at each await of a rate; a CLI
\* command may run from its load to its last save meanwhile

\* the host's loadTrades()
MarkerLoadTrades ==
  /\ procs.monitor.pc = "idle"
  /\ procs' = [procs EXCEPT !.monitor =
                 [pc |-> "trades_loaded", trades |-> trades,
                  state |-> Null, arg |-> Null]]
  /\ UNCHANGED <<trades, state, alertsLog, now, riskConfig, leverageConfig,
                 positionSize, call, snapshots>>

\* the host's loadState() and the selection of the open trades; with none
\* selected the ledger is saved at once
MarkerSelect ==
  /\ procs.monitor.pc = "trades_loaded"
  /\ LET open == OpenIdx(procs.monitor.trades, state)
     IN  IF open = <<>>
         THEN /\ procs' = [procs EXCEPT !.monitor.pc = "done",
                                        !.monitor.state = Some(state),
                                        !.monitor.arg = Some(open)]
              /\ trades' = procs.monitor.trades
         ELSE /\ procs' = [procs EXCEPT !.monitor.pc = "awaiting",
                                        !.monitor.state = Some(state),
                                        !.monitor.arg = Some(open)]
              /\ UNCHANGED trades
  /\ UNCHANGED <<state, alertsLog, now, riskConfig, leverageConfig,
                 positionSize, call, snapshots>>

\* the awaited rate of the next selected trade arrives: the trade of the
\* in-memory ledger is marked unless the rate is null, and after the last
\* one saveTrades(trades) writes the in-memory ledger
MarkerResume ==
  /\ procs.monitor.pc = "awaiting"
  /\ \E fetch \in FetchResults :
       LET m == procs.monitor
           i == Head(m.arg[1])
           marked == MarkLoop(<<i>>, [k \in {i} |-> fetch], m.trades, now)
       IN  IF Tail(m.arg[1]) = <<>>
           THEN /\ procs' = [procs EXCEPT !.monitor.pc = "done",
                                          !.monitor.trades = marked,
                                          !.monitor.arg = Some(<<>>)]
                /\ trades' = marked
           ELSE /\ procs' = [procs EXCEPT !.monitor.trades = marked,
                                          !.monitor.arg =
                                            Some(Tail(m.arg[1]))]
                /\ UNCHANGED trades
  /\ UNCHANGED <<state, alertsLog, now, riskConfig, leverageConfig,
                 positionSize, call, snapshots>>

MarkRaceInit == ProcInit

MarkRaceNext ==
  \/ MarkerLoadTrades
  \/ MarkerSelect
  \/ MarkerResume
  \/ CliLoadTrades
  \/ CliLoadState
  \/ CliFetch
  \/ CliSaveTrades
  \/ CliSaveState

MarkRaceSpec == MarkRaceInit /\ [][MarkRaceNext]_vars

TickMaxAlerts == 2
TickMaxSteps == 2

TickEnvironments ==
  { [risk |-> RiskConfig(2, 2), leverage |-> LeverageConfig("fixed")] }

TickInit ==
  /\ procs = NoProcs
  /\ call = NoCall
  /\ snapshots = <<>>
  /\ trades = <<>>
  /\ state = DefaultState(0)
  /\ alertsLog = 0
  /\ now = 0
  /\ \E env \in TickEnvironments :
       /\ riskConfig = env.risk
       /\ leverageConfig = env.leverage
  /\ positionSize \in {Some(p) : p \in PositionSizes}

\* the venue's rates a command may see: one per coin of an open trade
Markets(ts, st) ==
  [{ts[i].coin : i \in Range(OpenIdx(ts, st))} -> AprValues]

\* await fetchCurrentApr(trade.coin) for the trades at the positions of ok:
\* the venue's rate where the fetch succeeds, null where it fails
Fetched(ts, market, ok) ==
  [i \in DOMAIN ok |-> IF ok[i] THEN Some(market[ts[i].coin]) ELSE Null]

\* the alerts: both directions in one coin, a LONG in the other
TickAlerts == {a \in Alerts : a.coin = "HYPE" \/ a.direction = "LONG"}

\* onAlert in AUTO mode
TickAlert ==
  \E alert \in TickAlerts :
    LET r == openTrade(alert, state, trades, riskConfig, leverageConfig,
                       positionSize, now)
    IN  /\ alertsLog < TickMaxAlerts
        /\ alertsLog' = alertsLog + 1
        /\ trades' = r.trades
        /\ state' = r.state
        /\ call' = [fn |-> "onAlert", args |-> Null, result |-> Null]
        /\ UNCHANGED <<now, riskConfig, leverageConfig, positionSize, procs,
                       snapshots>>

\* updateUnrealizedPnl
TickMark ==
  LET open == OpenIdx(trades, state)
  IN  \E market \in Markets(trades, state), ok \in [Range(open) -> BOOLEAN] :
        LET args == Some([market |-> market, ok |-> ok])
        IN  /\ trades' = MarkLoop(open, Fetched(trades, market, ok), trades,
                                  now)
            /\ call' = [fn |-> "updateUnrealizedPnl", args |-> args,
                        result |-> Null]
            /\ UNCHANGED <<state, alertsLog, now, riskConfig, leverageConfig,
                           positionSize, procs, snapshots>>

\* mutant: the stop-loss list is selected before the time-based exits run
TickProcess_stopListFirst ==
  LET due == getTradesDueForExit(trades, state, now)
      atStop == getTradesAtStopLoss(trades, state, riskConfig)
  IN  \E market \in Markets(trades, state),
         ok1 \in [Range(due) -> BOOLEAN],
         stats1 \in [Range(due) -> StatsValues],
         ok2 \in [Range(atStop) -> BOOLEAN],
         stats2 \in [Range(atStop) -> StatsValues] :
        LET mid == CloseLoop(due, Fetched(trades, market, ok1), stats1,
                             "TIME_BASED", trades, state, now)
            end == CloseLoop(atStop, Fetched(mid.trades, market, ok2), stats2,
                             "STOP_LOSS", mid.trades, mid.state, now)
        IN  /\ trades' = end.trades
            /\ state' = end.state
            /\ call' = [fn |-> "processCommand",
                        args |-> Some([market |-> market, ok1 |-> ok1,
                                       ok2 |-> ok2,
                                       marked |-> Range(atStop)]),
                        result |-> Null]
            /\ UNCHANGED <<alertsLog, now, riskConfig, leverageConfig,
                           positionSize, procs, snapshots>>

\* processCommand; the record keeps the rates, the fetches that succeeded
\* and the positions whose stored mark was at the stop-loss threshold when
\* the command began
TickProcess ==
  LET due == getTradesDueForExit(trades, state, now)
  IN  \E market \in Markets(trades, state),
         ok1 \in [Range(due) -> BOOLEAN],
         stats1 \in [Range(due) -> StatsValues] :
        LET mid == CloseLoop(due, Fetched(trades, market, ok1), stats1,
                             "TIME_BASED", trades, state, now)
            atStop == getTradesAtStopLoss(mid.trades, mid.state, riskConfig)
        IN  \E ok2 \in [Range(atStop) -> BOOLEAN],
               stats2 \in [Range(atStop) -> StatsValues] :
              LET end == CloseLoop(atStop,
                                   Fetched(mid.trades, market, ok2), stats2,
                                   "STOP_LOSS", mid.trades, mid.state, now)
              IN  /\ trades' = end.trades
                  /\ state' = end.state
                  /\ call' = [fn |-> "processCommand",
                              args |-> Some([market |-> market, ok1 |-> ok1,
                                             ok2 |-> ok2,
                                             marked |->
                                               Range(getTradesAtStopLoss(
                                                 trades, state, riskConfig))]),
                              result |-> Null]
                  /\ UNCHANGED <<alertsLog, now, riskConfig, leverageConfig,
                                 positionSize, procs, snapshots>>

\* half a day passes
TickClock ==
  /\ now < TickMaxSteps * (HoursPerDay \div 2)
  /\ now' = now + HoursPerDay \div 2
  /\ call' = NoCall
  /\ UNCHANGED <<trades, state, alertsLog, riskConfig, leverageConfig,
                 positionSize, procs, snapshots>>

TickNext ==
  \/ TickAlert
  \/ TickMark
  \/ TickProcess
  \/ TickClock

TickSpec == TickInit /\ [][TickNext]_vars

\* --------------------------------------------- the metrics commands
\* The lifecycle commands of TickSpec (but for the mark) next to the
\* snapshot command and the dashboard
MetricsInit == TickInit

\* snapshotCommand: captureDailySnapshot(); the record keeps the snapshot
\* list the command loaded and the snapshot it returned
SnapshotCommand ==
  LET r == captureDailySnapshot(trades, state, snapshots, now)
  IN  /\ trades' = r.trades
      /\ state' = r.state
      /\ snapshots' = r.snapshots
      /\ call' = [fn |-> "captureDailySnapshot", args |-> Some(snapshots),
                  result |-> Some(r.snapshot)]
      /\ UNCHANGED <<alertsLog, now, riskConfig, leverageConfig,
                     positionSize, procs>>

\* the dashboard: calculateDashboardMetrics()
DashboardCommand ==
  LET r == calculateDashboardMetrics(trades, state, alertsLog, now)
  IN  /\ trades' = r.trades
      /\ state' = r.state
      /\ call' = [fn |-> "calculateDashboardMetrics", args |-> Null,
                  result |-> Some(r.metrics)]
      /\ UNCHANGED <<alertsLog, now, riskConfig, leverageConfig,
                     positionSize, procs, snapshots>>

MetricsNext ==
  \/ TickAlert
  \/ TickProcess
  \/ TickClock
  \/ SnapshotCommand
  \/ DashboardCommand

MetricsSpec == MetricsInit /\ [][MetricsNext]_vars

\* ------------------------------------------------------------- properties
\* the ledger positions of the trades of a coin with a given status
InCoin(coin, status) ==
  {i \in 1..Len(trades) :
     trades[i].coin = coin /\ trades[i].status = status}

ClosedIdx == {i \in 1..Len(trades) : trades[i].status = "CLOSED"}
OpenStatusIdx == {i \in 1..Len(trades) : trades[i].status = "OPEN"}

RECURSIVE SumRealized(_)
\* the sum of realizedPnl over the trades of a set of ledger positions
SumRealized(S) ==
  IF S = {} THEN 0
  ELSE LET i == CHOOSE x \in S : TRUE
       IN  trades[i].realizedPnl[1] + SumRealized(S \ {i})

RECURSIVE SumOpenNotional(_, _)
\* the sum of notionalSize over the OPEN trades of a ledger
SumOpenNotional(ts, n) ==
  IF n = 0 THEN 0
  ELSE (IF ts[n].status = "OPEN" THEN ts[n].notionalSize ELSE 0)
         + SumOpenNotional(ts, n - 1)

\* the risk decision for a coin in the current state
Decision(coin) == canOpenTrade(state, trades, coin, riskConfig, now)

\* the account is at or beyond the drawdown threshold
AtDrawdown ==
  (state.peakEquity - state.currentEquity) * Scale
    >= Abs(riskConfig.maxDrawdown) * state.peakEquity

\* the notional of the open trades is at or beyond the exposure cap
AtExposure ==
  SumOpenNotional(trades, Len(trades)) * Scale
    >= state.currentEquity * riskConfig.maxTotalExposure

\* the closed trades of a coin, oldest first
ClosedOf(coin) ==
  LET p(t) == t.coin = coin /\ t.status = "CLOSED" IN SelectSeq(trades, p)

\* the coin's consecutiveLossLimit most recent closed trades exist and are
\* all losses
LossStreak(coin) ==
  LET c == ClosedOf(coin)
      n == riskConfig.consecutiveLossLimit
  IN  /\ n >= 1
      /\ Len(c) >= n
      /\ \A i \in (Len(c) - n + 1)..Len(c) : c[i].realizedPnl[1] < 0

\* the exit time of the last loss plus the cooldown
StreakEnd(coin) ==
  LET c == ClosedOf(coin)
  IN  c[Len(c)].exitTime[1] + riskConfig.cooldownDays * HoursPerDay

\* every risk check other than the one-position-per-coin check passes
OthersPassButCoin(coin) ==
  /\ Len(state.openPositions) < riskConfig.maxConcurrentPositions
  /\ ~AtExposure
  /\ ~AtDrawdown
  /\ ~(LossStreak(coin) /\ now < StreakEnd(coin))
  /\ ~(riskConfig.consecutiveLossLimit = 0 /\ ClosedOf(coin) = <<>>)

\* C1: in every reachable state the current equity is the starting capital
\* plus the realized P&L of all CLOSED trades
C1_EquityIsStartPlusRealized ==
  state.currentEquity = state.startingCapital + SumRealized(ClosedIdx)

\* two trades have been closed and the equity has moved
C1_Witness ==
  /\ Cardinality(ClosedIdx) >= 2
  /\ state.currentEquity # state.startingCapital

\* C2: the ids in openPositions are exactly the ids of the OPEN trades, each
\* once
C2_OpenPositionsAreOpenTrades ==
  /\ Range(state.openPositions) = {trades[i].id : i \in OpenStatusIdx}
  /\ Len(state.openPositions) = Cardinality(Range(state.openPositions))

\* one trade has been closed while another one is open
C2_Witness ==
  /\ ClosedIdx # {}
  /\ Len(state.openPositions) >= 1

\* C3: for every trade, CLOSED iff exitTime is set iff realizedPnl is set,
\* and a CLOSED trade has unrealizedPnl 0
C3_ClosedFieldsAgree ==
  \A i \in 1..Len(trades) :
    /\ (trades[i].status = "CLOSED") <=> ~IsNull(trades[i].exitTime)
    /\ ~IsNull(trades[i].exitTime) <=> ~IsNull(trades[i].realizedPnl)
    /\ trades[i].status = "CLOSED" => trades[i].unrealizedPnl = 0

\* a trade closed after a day of adverse or favourable funding (its mark was
\* not zero), next to an open trade that carries a mark
C3_Witness ==
  /\ \E i \in ClosedIdx :
       /\ trades[i].exitTime[1] > trades[i].entryTime
       /\ trades[i].exitApr[1] # trades[i].entryApr
  /\ \E j \in OpenStatusIdx : trades[j].unrealizedPnl # 0

\* C4: peakEquity never decreases from one state to the next, and it is
\* always at least currentEquity
C4_PeakMonotoneAndAbove ==
  /\ [](state.peakEquity >= state.currentEquity)
  /\ [][state.peakEquity' >= state.peakEquity]_vars

\* the peak was raised by a gain and the equity then fell below it
C4_Witness ==
  /\ state.peakEquity > state.startingCapital
  /\ state.currentEquity < state.peakEquity

\* C5: no coin has two OPEN trades; canOpenTrade rejects a coin that has an
\* OPEN trade, and allows it again after the close when every other check
\* passes
C5_OneOpenPerCoin ==
  \A coin \in Coins :
    /\ Cardinality(InCoin(coin, "OPEN")) <= 1
    /\ InCoin(coin, "OPEN") # {} => ~Decision(coin).allowed
    /\ (/\ InCoin(coin, "OPEN") = {}
        /\ InCoin(coin, "CLOSED") # {}
        /\ OthersPassButCoin(coin)) => Decision(coin).allowed

\* a coin was closed and opened again
C5_Witness ==
  \E coin \in Coins :
    \E i \in InCoin(coin, "CLOSED"), j \in InCoin(coin, "OPEN") : i < j

\* C6: the number of open positions never exceeds maxConcurrentPositions,
\* and no trade is opened from a state that is at the cap
C6_ConcurrentCap ==
  /\ [](Len(state.openPositions) <= riskConfig.maxConcurrentPositions)
  /\ [][Len(state.openPositions) >= riskConfig.maxConcurrentPositions
          => Len(trades') = Len(trades)]_vars

\* the cap is reached and an alert was logged without opening a trade
C6_Witness ==
  /\ Len(state.openPositions) = riskConfig.maxConcurrentPositions
  /\ alertsLog > Len(trades)

\* C7: right after a successful openTrade the notional of the open trades,
\* the new one included, is at most currentEquity * maxTotalExposure
C7_ExposureCappedAfterOpen ==
  [][Len(trades') > Len(trades)
      => SumOpenNotional(trades', Len(trades')) * Scale
           <= state'.currentEquity * riskConfig.maxTotalExposure]_vars

\* C8: at or beyond the drawdown threshold canOpenTrade rejects every coin,
\* and no trade is opened from such a state
C8_DrawdownBreaker ==
  /\ [](AtDrawdown => \A coin \in Coins : ~Decision(coin).allowed)
  /\ [][AtDrawdown => Len(trades') = Len(trades)]_vars

\* the breaker holds after a gain raised the peak above the starting
\* capital, and an alert was logged without opening a trade
C8_Witness ==
  /\ AtDrawdown
  /\ state.peakEquity > state.startingCapital
  /\ alertsLog > Len(trades)

\* C9: while a coin's loss streak is on cooldown canOpenTrade rejects it,
\* and from the end of the cooldown on it allows it when the other checks
\* pass
C9_Cooldown ==
  \A coin \in Coins :
    LossStreak(coin) =>
      /\ now < StreakEnd(coin) => ~Decision(coin).allowed
      /\ (/\ now >= StreakEnd(coin)
          /\ InCoin(coin, "OPEN") = {}
          /\ OthersPassButCoin(coin)) => Decision(coin).allowed

\* a streak of two losses whose cooldown has run out, and the coin is
\* allowed again
C9_Witness ==
  \E coin \in Coins :
    /\ riskConfig.consecutiveLossLimit = 2
    /\ LossStreak(coin)
    /\ now >= StreakEnd(coin)
    /\ Decision(coin).allowed

\* C10: the cooldown check never fails, and it never rejects a coin that has
\* fewer than consecutiveLossLimit closed trades or a non-loss among its
\* consecutiveLossLimit most recent closed trades; for every limit, 0
\* included, and for a coin without closed trades
C10_CooldownTolerant ==
  \A coin \in Coins :
    LET c == ClosedOf(coin)
        n == riskConfig.consecutiveLossLimit
    IN  /\ ~Decision(coin).threw
        /\ (\/ Len(c) < n
            \/ \E i \in 1..Len(c) :
                 i > Len(c) - n /\ c[i].realizedPnl[1] >= 0)
             => Decision(coin).reason # "cooldown"

\* the risk checks of a coin, stated on the ledger and the account
CapFails == Len(state.openPositions) >= riskConfig.maxConcurrentPositions
CoinFails(coin) == InCoin(coin, "OPEN") # {}
CooldownFails(coin) == LossStreak(coin) /\ now < StreakEnd(coin)

\* the reason canOpenTrade is to give for a coin: that of the first failing
\* check in the order cap, coin, exposure, drawdown, cooldown
FirstFailing(coin) ==
  IF CapFails THEN "max_concurrent"
  ELSE IF CoinFails(coin) THEN "open_in_coin"
  ELSE IF AtExposure THEN "max_exposure"
  ELSE IF AtDrawdown THEN "max_drawdown"
  ELSE IF CooldownFails(coin) THEN "cooldown"
  ELSE "none"

\* the number of risk checks that fail for a coin
FailCount(coin) ==
  Cardinality({k \in 1..5 :
     \/ k = 1 /\ CapFails
     \/ k = 2 /\ CoinFails(coin)
     \/ k = 3 /\ AtExposure
     \/ k = 4 /\ AtDrawdown
     \/ k = 5 /\ CooldownFails(coin)})

\* C11: canOpenTrade rejects with the reason of the first failing check in
\* the order cap, coin, exposure, drawdown, cooldown, and allows only when no
\* check fails
C11_ChecksInOrder ==
  \A coin \in Coins :
    /\ FirstFailing(coin) # "none" =>
          /\ ~Decision(coin).allowed
          /\ Decision(coin).reason = FirstFailing(coin)
    /\ Decision(coin).allowed => FirstFailing(coin) = "none"

\* exposure, drawdown and cooldown fail together for a coin and the answer
\* is the exposure rejection
C11_Witness ==
  \E coin \in Coins :
    /\ ~CapFails /\ ~CoinFails(coin)
    /\ AtExposure /\ AtDrawdown /\ CooldownFails(coin)
    /\ Decision(coin).reason = "max_exposure"

\* what openTrade gives for an alert in the current state
Opened(alert) ==
  openTrade(alert, state, trades, riskConfig, leverageConfig, positionSize,
            now)

\* C12: when a risk check fails for the alert's coin, openTrade returns no
\* trade and the reason of the rejection, and the ledger and the account
\* state it leaves are the ones it was given
C12_RejectionLeavesAll ==
  \A alert \in Alerts :
    FirstFailing(alert.coin) # "none" =>
      /\ Opened(alert).trade = Null
      /\ Opened(alert).reason = FirstFailing(alert.coin)
      /\ Opened(alert).trades = trades
      /\ Opened(alert).state = state

\* an alert was rejected while a trade is open: it is logged, the ledger
\* holds fewer trades than the log holds alerts and the check still fails
C12_Witness ==
  /\ alertsLog > Len(trades)
  /\ Len(state.openPositions) >= 1
  /\ \E coin \in Coins : FirstFailing(coin) # "none"

\* the fields a close writes on a trade
ExitFields(t) ==
  <<t.status, t.realizedPnl, t.fees, t.exitTime, t.exitApr, t.exitZScore,
    t.exitReason>>

\* the fields openTrade sets and no later operation is to touch
EntryFields(t) ==
  <<t.id, t.coin, t.direction, t.entryTime, t.entryApr, t.entryZScore,
    t.notionalSize, t.leverage, t.targetHoldDays, t.scheduledExitTime>>

\* C13: a CLOSED trade stays CLOSED in every step: its status, realizedPnl,
\* fees and exit fields do not change, and its id is not in openPositions
\* afterwards
C13_ClosedIsTerminal ==
  [][\A i \in 1..Len(trades) :
       trades[i].status = "CLOSED" =>
         /\ i <= Len(trades')
         /\ ExitFields(trades'[i]) = ExitFields(trades[i])
         /\ ~Includes(state'.openPositions, trades[i].id)]_vars

\* a trade was closed, the clock moved on, and another trade was opened and
\* closed after that close
C13_Witness ==
  \E i, j \in ClosedIdx :
    /\ i < j
    /\ trades[j].entryTime >= trades[i].exitTime[1]
    /\ trades[i].exitTime[1] < now

\* C14: the ledger only grows at its end: in every step its length does not
\* decrease and every trade keeps its position, its id, coin, direction,
\* entry fields and hold plan
C14_LedgerAppendOnly ==
  [][/\ Len(trades') >= Len(trades)
     /\ \A i \in 1..Len(trades) :
          EntryFields(trades'[i]) = EntryFields(trades[i])]_vars

\* the ledger holds a closed trade that was marked and an open trade that was
\* appended after it
C14_Witness ==
  /\ Len(trades) >= 2
  /\ trades[1].status = "CLOSED"
  /\ trades[1].exitApr[1] # trades[1].entryApr
  /\ trades[Len(trades)].status = "OPEN"
  /\ trades[Len(trades)].unrealizedPnl # 0

\* the files after the monitor's alert alone ran on the files d
SerialOpen(d) ==
  LET r == openTrade(procs.monitor.arg[1], d.state, d.trades, riskConfig,
                     leverageConfig, positionSize, now)
  IN  [trades |-> r.trades, state |-> r.state]

\* the files after the CLI command alone ran on the files d
SerialClose(d) ==
  LET arg == procs.cli.arg[1]
      r == CliClose(arg, d.state, d.trades, now)
  IN  IF arg.i = 0 THEN d ELSE [trades |-> r.trades, state |-> r.state]

\* C15: when the monitor's openTrade and the CLI's close have both ended,
\* the ledger and the account state on disk are those of one of the two
\* serial orders of the two operations
C15_OpenCloseSerialized ==
  (procs.monitor.pc = "done" /\ procs.cli.pc = "done") =>
    [trades |-> trades, state |-> state]
      \in {SerialClose(SerialOpen(procs.start[1])),
           SerialOpen(SerialClose(procs.start[1]))}

\* C16: at every point the persisted openPositions are the ids of the
\* persisted OPEN trades and the persisted equity is the starting capital
\* plus the persisted realized P&L
C16_PersistedAsUnit ==
  /\ Range(state.openPositions) = {trades[i].id : i \in OpenStatusIdx}
  /\ state.currentEquity = state.startingCapital + SumRealized(ClosedIdx)

\* a call of calculateLeverage has returned
LeverageReturned == call.fn = "calculateLeverage" /\ ~IsNull(call.result)

\* C17: calculateLeverage returns L with 1 <= L <= config.maxLeverage, and
\* min(6, maxLeverage) for signal_strength with |z| = 5
C17_LeverageWithinCap ==
  LeverageReturned =>
    /\ 1 * Scale <= call.result[1]
    /\ call.result[1] <= leverageConfig.maxLeverage
    /\ (leverageConfig.strategy = "signal_strength"
          /\ Abs(call.args[1].zScore) = 500)
         => call.result[1] = Min(6 * Scale, leverageConfig.maxLeverage)

\* C17, amended: calculateLeverage returns L with
\* 1 <= L <= max(1, config.maxLeverage), the floor of 1 winning over a cap
\* below 1, and max(1, min(6, maxLeverage)) for signal_strength with |z| = 5
C17_LeverageFloorOverCap ==
  LeverageReturned =>
    /\ 1 * Scale <= call.result[1]
    /\ call.result[1] <= Max(1 * Scale, leverageConfig.maxLeverage)
    /\ (leverageConfig.strategy = "signal_strength"
          /\ Abs(call.args[1].zScore) = 500)
         => call.result[1]
              = Max(1 * Scale, Min(6 * Scale, leverageConfig.maxLeverage))

\* a 5 sigma signal under signal_strength was cut from 6x to a cap of 3x
C17_Witness ==
  /\ LeverageReturned
  /\ leverageConfig.strategy = "signal_strength"
  /\ Abs(call.args[1].zScore) = 500
  /\ leverageConfig.maxLeverage = 3 * Scale
  /\ call.result[1] = 3 * Scale

\* the reference step function of |z|
RefSignal(zScore) ==
  IF Abs(zScore) < 200 THEN 1 * Scale
  ELSE IF Abs(zScore) < 250 THEN 2 * Scale
  ELSE IF Abs(zScore) < 300 THEN 4 * Scale
  ELSE 6 * Scale

\* the reference multiplier of currentEquity / startingEquity
RefMultiplier(currentEquity, startingEquity) ==
  IF currentEquity * 100 >= 120 * startingEquity THEN 150
  ELSE IF currentEquity * 100 >= 110 * startingEquity THEN 125
  ELSE IF currentEquity * 100 <= 90 * startingEquity THEN 50
  ELSE 100

\* the reference mapping of strategy, |z| and equity ratio to a leverage
RefLeverage(config, args) ==
  LET m == RefMultiplier(args.currentEquity, args.startingEquity)
  IN  IF config.strategy = "fixed" THEN config.fixedLeverage
      ELSE IF config.strategy = "signal_strength" THEN RefSignal(args.zScore)
      ELSE IF config.strategy = "profit_stack" THEN 2 * m
      ELSE IF config.strategy = "combined"
           THEN (RefSignal(args.zScore) * m) \div Scale
      ELSE 1 * Scale

\* C18: before the clamp calculateLeverage equals the reference mapping of
\* strategy, |z| and equity ratio, and what it returns is the clamp of the
\* reference value
C18_LeverageReference ==
  LeverageReturned =>
    LET ref == RefLeverage(leverageConfig, call.args[1])
    IN  /\ unclampedLeverage(leverageConfig, call.args[1].zScore,
                             call.args[1].currentEquity,
                             call.args[1].startingEquity) = ref
        /\ call.result[1]
             = Max(Min(ref, leverageConfig.maxLeverage), 1 * Scale)

\* combined at 2.5 sigma with the equity up 20%: 4 x 1.5 = 6 under a cap
\* of 10
C18_Witness ==
  /\ LeverageReturned
  /\ leverageConfig.strategy = "combined"
  /\ call.args[1].zScore = 250
  /\ call.args[1].currentEquity * 10 = 12 * call.args[1].startingEquity
  /\ leverageConfig.maxLeverage = 10 * Scale
  /\ call.result[1] = 6 * Scale

\* the size openTrade is asked for, and the size cap at an equity
RequestedSize ==
  IF IsNull(positionSize) THEN DEFAULT_POSITION_SIZE ELSE positionSize[1]
SizeCap(equity) == (equity * riskConfig.maxPositionSize) \div Scale

\* C19: the trade a step appends has leverage
\* min(calculateLeverage(...), riskConfig.maxLeverage), collateral
\* min(requested or default size, equity * maxPositionSize) and notional
\* collateral * leverage; so notional / leverage is at most the size cap at
\* the equity of the open and leverage at most riskConfig.maxLeverage
C19_TradeSizing ==
  [][Len(trades') = Len(trades) + 1 =>
       LET t == trades'[Len(trades')]
           leverage == Min(calculateLeverage(leverageConfig, t.entryZScore,
                                             state.currentEquity,
                                             state.startingCapital),
                           riskConfig.maxLeverage)
           collateral == Min(RequestedSize, SizeCap(state.currentEquity))
       IN  /\ t.leverage = leverage
           /\ t.notionalSize = (collateral * leverage) \div Scale
           /\ t.notionalSize * Scale
                <= t.leverage * SizeCap(state.currentEquity)
           /\ t.leverage <= riskConfig.maxLeverage]_vars

\* a second trade was opened after the first one moved the equity, and its
\* collateral is the size cap at that equity, below the requested size
C19_Witness ==
  /\ Len(trades) = 2
  /\ trades[1].status = "CLOSED"
  /\ trades[1].realizedPnl[1] # 0
  /\ SizeCap(state.startingCapital + trades[1].realizedPnl[1])
       < RequestedSize
  /\ trades[2].notionalSize
       = (SizeCap(state.startingCapital + trades[1].realizedPnl[1])
            * trades[2].leverage) \div Scale

\* the fee of one side of a trade
SideFee(t) == t.notionalSize \div TAKER_FEE_DEN

\* the scenario: a SHORT of 10,000 notional entered at 15% APR and closed
\* at 5% APR after 168 hours
IsScenario(t) ==
  /\ t.direction = "SHORT"
  /\ t.notionalSize = 10000 * Scale
  /\ t.entryApr = 15
  /\ t.status = "CLOSED"
  /\ t.exitApr = Some(5)
  /\ t.exitTime[1] - t.entryTime = 168

\* C20: an OPEN trade holds the fee of one side and a CLOSED trade the fees
\* of two sides, and realizedPnl is the gross P&L less both; the scenario
\* trade pays 10 per side, grosses 19.18 and realizes -0.82, to the cent
C20_FeesPerSide ==
  \A i \in 1..Len(trades) :
    LET t == trades[i]
    IN  /\ t.status = "OPEN" => t.fees = SideFee(t)
        /\ t.status = "CLOSED" =>
             /\ t.fees = 2 * SideFee(t)
             /\ t.realizedPnl[1]
                  = calculatePnl(t, t.exitApr[1],
                                 t.exitTime[1] - t.entryTime) - t.fees
        /\ IsScenario(t) =>
             /\ SideFee(t) = 10 * Scale
             /\ t.realizedPnl[1] + t.fees \in 1917..1918
             /\ t.realizedPnl[1] \in (0 - 83)..(0 - 82)

\* the scenario trade has been closed
C20_Witness == \E i \in 1..Len(trades) : IsScenario(trades[i])

\* a call of calculatePnl has returned
PnlReturned == call.fn = "calculatePnl" /\ ~IsNull(call.result)

\* C21: for every entry rate, observed rate, positive notional and positive
\* hours held, the SHORT pnl is positive exactly when the observed rate is
\* below the entry rate, the LONG pnl exactly when it is above, and the
\* SHORT pnl is the negation of the LONG pnl
C21_PnlSignConvention ==
  PnlReturned =>
    LET a == call.args[1]
        r == call.result[1]
    IN  /\ r["SHORT"] > 0 <=> a.currentApr < a.entryApr
        /\ r["LONG"] > 0 <=> a.currentApr > a.entryApr
        /\ r["SHORT"] = 0 - r["LONG"]

\* a SHORT entered at 10% with 2% observed gains, and the LONG entered at 2%
\* with 10% observed gains as well
C21_Witness ==
  /\ PnlReturned
  /\ \/ /\ call.args[1].entryApr = 10
        /\ call.args[1].currentApr = 2
        /\ call.result[1]["SHORT"] > 0
     \/ /\ call.args[1].entryApr = 2
        /\ call.args[1].currentApr = 10
        /\ call.result[1]["LONG"] > 0

\* a trade but for its mark
Unmarked(t) == [t EXCEPT !.unrealizedPnl = 0]

\* the ledger after the mark recorded in call is made once more
MarkedAgain ==
  MarkLoop(OpenIdx(trades, state),
           Fetched(trades, call.args[1].market, call.args[1].ok), trades,
           now)

\* C22: updateUnrealizedPnl changes nothing but the unrealizedPnl of open
\* trades: the account state, the length of the ledger, every CLOSED trade
\* and every other field of an open trade (status, fees, realizedPnl, entry
\* and exit fields) are left as they were; the same mark made again at the
\* same time leaves the ledger as it is
C22_MarkChangesOnlyUnrealized ==
  /\ [][call'.fn = "updateUnrealizedPnl" =>
          /\ state' = state
          /\ Len(trades') = Len(trades)
          /\ \A i \in 1..Len(trades) :
               /\ Unmarked(trades'[i]) = Unmarked(trades[i])
               /\ trades[i].status = "CLOSED" => trades'[i] = trades[i]]_vars
  /\ [](call.fn = "updateUnrealizedPnl" => MarkedAgain = trades)

\* a mark gave an open trade a non-zero unrealizedPnl next to a closed trade
C22_Witness ==
  /\ call.fn = "updateUnrealizedPnl"
  /\ ClosedIdx # {}
  /\ \E i \in OpenStatusIdx :
       /\ call.args[1].ok[i]
       /\ trades[i].unrealizedPnl # 0

\* the trades a processCommand fetched a rate for, and those of them for
\* which no fetch succeeded
Tried(a) == DOMAIN a.ok1 \cup DOMAIN a.ok2
Failed(a, i) ==
  /\ i \in DOMAIN a.ok1 => ~a.ok1[i]
  /\ i \in DOMAIN a.ok2 => ~a.ok2[i]

RECURSIVE SumRealizedOf(_, _)
\* the sum of realizedPnl over the positions S of a ledger
SumRealizedOf(ts, S) ==
  IF S = {} THEN 0
  ELSE LET i == CHOOSE x \in S : TRUE
       IN  ts[i].realizedPnl[1] + SumRealizedOf(ts, S \ {i})

\* C23: a trade whose rate fetch returns null is skipped: a mark leaves it as
\* it is and marks every other open trade at its fetched rate; a process
\* tick leaves it as it is and OPEN, closes every other trade it fetched a
\* rate for, and moves the equity by the closed trades only
C23_NullFetchSkips ==
  [][/\ call'.fn = "updateUnrealizedPnl" =>
          LET a == call'.args[1]
          IN  \A i \in DOMAIN a.ok :
                IF a.ok[i]
                THEN trades'[i].unrealizedPnl
                       = calculatePnl(trades[i], a.market[trades[i].coin],
                                      now - trades[i].entryTime)
                ELSE trades'[i] = trades[i]
     /\ call'.fn = "processCommand" =>
          LET a == call'.args[1]
              closed == {i \in Tried(a) : ~Failed(a, i)}
          IN  /\ \A i \in Tried(a) :
                   IF Failed(a, i)
                   THEN /\ trades'[i] = trades[i]
                        /\ trades'[i].status = "OPEN"
                        /\ Includes(state'.openPositions, trades[i].id)
                   ELSE /\ trades'[i].status = "CLOSED"
                        /\ trades'[i].exitTime = Some(now)
              /\ state'.currentEquity
                   = state.currentEquity + SumRealizedOf(trades', closed)
              /\ closed = {} => (trades' = trades /\ state' = state)]_vars

\* a process tick skipped a due trade whose fetch failed and closed
\* another one
C23_Witness ==
  /\ call.fn = "processCommand"
  /\ \E i, j \in DOMAIN call.args[1].ok1 :
       /\ Failed(call.args[1], i)
       /\ trades[i].status = "OPEN"
       /\ call.args[1].ok1[j]
       /\ trades[j].status = "CLOSED"

\* the loss of a trade at a rate reaches the stop-loss threshold:
\* pnl / notionalSize <= stopLossThreshold
LossReaches(t, apr) ==
  calculatePnl(t, apr, now - t.entryTime) * Scale
    <= riskConfig.stopLossThreshold * t.notionalSize

\* C24: a process tick closes with STOP_LOSS every open position whose loss
\* at the venue's current rate reaches the stop-loss threshold, when no
\* fetch of its rate fails (stated for the positions that are not yet due;
\* a position that is due as well is the subject of C26)
C24_StopLossEnforced ==
  [][call'.fn = "processCommand" =>
       LET a == call'.args[1]
       IN  \A i \in OpenStatusIdx :
             (/\ LossReaches(trades[i], a.market[trades[i].coin])
              /\ trades[i].scheduledExitTime > now
              /\ i \in DOMAIN a.ok2 => a.ok2[i])
               => /\ trades'[i].status = "CLOSED"
                  /\ trades'[i].exitReason = Some("STOP_LOSS")]_vars

\* C25: scheduledExitTime is the entry time plus the hold days; a process
\* tick closes with TIME_BASED, at the time of the tick, every open trade
\* whose scheduledExitTime is at or before now and whose rate fetch in the
\* time-based pass does not fail; no step closes a trade with TIME_BASED
\* before its scheduledExitTime
C25_TimeBasedExit ==
  /\ [](\A i \in 1..Len(trades) :
          trades[i].scheduledExitTime
            = trades[i].entryTime + trades[i].targetHoldDays * HoursPerDay)
  /\ [][/\ call'.fn = "processCommand" =>
             \A i \in OpenStatusIdx :
               (/\ trades[i].scheduledExitTime <= now
                /\ i \in DOMAIN call'.args[1].ok1 => call'.args[1].ok1[i])
                 => /\ trades'[i].status = "CLOSED"
                    /\ trades'[i].exitReason = Some("TIME_BASED")
                    /\ trades'[i].exitTime = Some(now)
        /\ \A i \in OpenStatusIdx :
             trades'[i].exitReason = Some("TIME_BASED")
               => trades[i].scheduledExitTime <= now]_vars

\* a process tick closed a trade with TIME_BASED at its scheduled exit time
\* and left open a trade that is not yet due
C25_Witness ==
  /\ call.fn = "processCommand"
  /\ \E i \in ClosedIdx :
       /\ trades[i].exitReason = Some("TIME_BASED")
       /\ trades[i].exitTime = Some(trades[i].scheduledExitTime)
       /\ trades[i].exitTime = Some(now)
  /\ \E j \in OpenStatusIdx : trades[j].scheduledExitTime > now

\* the stored mark of a trade is at the stop-loss threshold
MarkAtStop(t) ==
  /\ t.notionalSize > 0
  /\ t.unrealizedPnl * Scale <= riskConfig.stopLossThreshold * t.notionalSize

\* C26: a process tick closes with STOP_LOSS an open trade that is due for
\* the time-based exit and at the stop-loss threshold at once, when its rate
\* fetch succeeds
C26_StopLossPrecedence ==
  [][call'.fn = "processCommand" =>
       \A i \in OpenStatusIdx :
         (/\ trades[i].scheduledExitTime <= now
          /\ MarkAtStop(trades[i])
          /\ i \in DOMAIN call'.args[1].ok1
          /\ call'.args[1].ok1[i])
           => /\ trades'[i].status = "CLOSED"
              /\ trades'[i].exitReason = Some("STOP_LOSS")]_vars

\* the dates of a snapshot list, and the positions that hold a date
SnapshotDates(snaps) == {snaps[k].date : k \in 1..Len(snaps)}
OfDate(snaps, date) == {k \in 1..Len(snaps) : snaps[k].date = date}

\* C27: the snapshot list holds at most one record per calendar date; a
\* capture on a date that has a record replaces that record in place by the
\* day's snapshot, with the length of the list and every other date's record
\* unchanged, and a capture on a new date appends exactly one record
C27_SnapshotUpsert ==
  /\ [](Cardinality(SnapshotDates(snapshots)) = Len(snapshots))
  /\ [][call'.fn = "captureDailySnapshot" =>
          LET today == now \div HoursPerDay
              snapshot == call'.result[1]
          IN  /\ snapshot.date = today
              /\ snapshot.equity = state.currentEquity
              /\ snapshot.openPositions = Len(state.openPositions)
              /\ IF OfDate(snapshots, today) # {}
                 THEN /\ Len(snapshots') = Len(snapshots)
                      /\ \A k \in 1..Len(snapshots) :
                           snapshots'[k] = IF snapshots[k].date = today
                                           THEN snapshot
                                           ELSE snapshots[k]
                 ELSE snapshots' = Append(snapshots, snapshot)]_vars

\* a capture replaced the day's record by a different one, behind the
\* record of the day before
C27_Witness ==
  /\ call.fn = "captureDailySnapshot"
  /\ Len(call.args[1]) = 2
  /\ Len(snapshots) = 2
  /\ snapshots[1] = call.args[1][1]
  /\ snapshots[1].date < snapshots[2].date
  /\ snapshots[2] # call.args[1][2]
  /\ snapshots[2].date = call.args[1][2].date

\* C28: the metrics operations leave the ledger and the account state as
\* they found them: trades, openPositions, currentEquity and peakEquity
\* (and lastUpdated) are the same before and after a dashboard calculation
\* and a snapshot capture
C28_MetricsReadOnly ==
  [][call'.fn \in {"captureDailySnapshot", "calculateDashboardMetrics"} =>
       /\ trades' = trades
       /\ state'.openPositions = state.openPositions
       /\ state'.currentEquity = state.currentEquity
       /\ state'.peakEquity = state.peakEquity
       /\ state' = state]_vars

\* a snapshot was captured with a closed and an open trade in the ledger
\* and the equity below its peak
C28_Witness ==
  /\ call.fn = "captureDailySnapshot"
  /\ ClosedIdx # {}
  /\ OpenStatusIdx # {}
  /\ state.currentEquity < state.peakEquity
  /\ call.result[1].dailyPnl < 0

\* a call of calculateMaxDrawdown has returned
DrawdownReturned == call.fn = "calculateMaxDrawdown" /\ ~IsNull(call.result)

\* the trades of a ledger that exit no later than trade i, itself included:
\* the replay up to trade i in exit-time order
UpTo(ts, i) ==
  {j \in 1..Len(ts) :
     \/ ts[j].exitTime[1] < ts[i].exitTime[1]
     \/ ts[j].exitTime[1] = ts[i].exitTime[1] /\ j <= i}

\* the equity after trade i in the replay from the starting capital, and
\* the running peak at that point
EquityAt(ts, i) == state.startingCapital + SumRealizedOf(ts, UpTo(ts, i))
PeakAt(ts, i) ==
  LET seen == {state.startingCapital} \cup
                {EquityAt(ts, j) : j \in UpTo(ts, i)}
  IN  CHOOSE p \in seen : \A q \in seen : p >= q

\* (peak - equity) / peak as a percentage with two decimals, for amounts
\* of whole dollars
DrawdownAt(ts, i) ==
  (((PeakAt(ts, i) - EquityAt(ts, i)) \div Scale) * 100 * Scale)
    \div (PeakAt(ts, i) \div Scale)

\* the largest drawdown of the replay
LargestDrawdown(ts) ==
  LET seen == {0} \cup {DrawdownAt(ts, i) : i \in 1..Len(ts)}
  IN  CHOOSE d \in seen : \A e \in seen : d >= e

\* the equity of the replay runs 10000, 10500, 9000, 9800
IsDrawdownScenario(ts) ==
  /\ Len(ts) = 3
  /\ {EquityAt(ts, i) : i \in 1..3}
       = {10500 * Scale, 9000 * Scale, 9800 * Scale}
  /\ \A i \in 1..3 :
       EquityAt(ts, i) = 9000 * Scale => Cardinality(UpTo(ts, i)) = 2

\* C29: calculateMaxDrawdown returns the largest (peak - equity) / peak of
\* the replay of the closed trades in exit-time order from the starting
\* capital, as a percentage; about 14.3 for the equity sequence 10000,
\* 10500, 9000, 9800; 0 for no closed trades and for a replay that never
\* falls below its running peak
C29_MaxDrawdownReplay ==
  DrawdownReturned =>
    LET ts == call.args[1]
        r == call.result[1]
    IN  /\ r = LargestDrawdown(ts)
        /\ IsDrawdownScenario(ts) => r \in 1428..1429
        /\ ts = <<>> => r = 0
        /\ (\A i \in 1..Len(ts) : EquityAt(ts, i) >= PeakAt(ts, i)) => r = 0

\* the scenario with the ledger in another order than the exit times: the
\* loss of 1,500 is first in the ledger and second to exit
C29_Witness ==
  /\ DrawdownReturned
  /\ IsDrawdownScenario(call.args[1])
  /\ call.args[1][1].realizedPnl = Some(0 - 1500 * Scale)
  /\ call.result[1] = 1428

\* a call of loadTrades or loadState has returned
LoadReturned ==
  call.fn \in {"loadTrades", "loadState"} /\ ~IsNull(call.result)

\* C30: loadTrades gives the empty ledger for a trades file that is missing
\* or cannot be parsed, loadState the default account (no open positions,
\* currentEquity = peakEquity = startingCapital) for such a state file, and
\* neither raises an error; a file that parses is returned as it is
C30_LoadFailsSafe ==
  LoadReturned =>
    LET file == call.args[1]
        r == call.result[1]
    IN  /\ ~r.threw
        /\ (file.kind # "json" /\ call.fn = "loadTrades") => r.value = <<>>
        /\ (file.kind # "json" /\ call.fn = "loadState") =>
             /\ r.value.openPositions = <<>>
             /\ r.value.currentEquity = r.value.startingCapital
             /\ r.value.peakEquity = r.value.startingCapital
             /\ r.value.startingCapital = DEFAULT_STARTING_CAPITAL
        /\ file.kind = "json" => r.value = file.value[1]

\* a load of a file that is not JSON returned, with the warning printed
C30_Witness ==
  /\ LoadReturned
  /\ call.args[1].kind = "unparseable"
  /\ call.result[1].warned
  /\ ~call.result[1].threw

\* the ledger positions whose status is OPEN
OpenByStatus(ts) == {i \in 1..Len(ts) : ts[i].status = "OPEN"}

\* the account with openPositions rebuilt from the ledger's status field
Rebuilt(ts, st) ==
  LET open == SelectIdx(Len(ts), [i \in 1..Len(ts) |-> ts[i].status = "OPEN"],
                        <<>>)
  IN  [st EXCEPT !.openPositions = [k \in 1..Len(open) |-> ts[open[k]].id]]

\* the processes that hold a loaded ledger and a loaded account
Loaded == {p \in {procs.monitor, procs.cli} : ~IsNull(p.state)}

\* C31: whatever a process loaded, its risk check, its exit selection and
\* its open-trade listing are those of the ledger's status field: the open
\* trades are the trades with status OPEN, max_concurrent is given only when
\* that many trades are OPEN, every decision is the one taken on the
\* openPositions rebuilt from status, and no CLOSED trade is selected for
\* closing
C31_StatusIsGroundTruth ==
  \A p \in Loaded :
    LET ts == p.trades
        st == p.state[1]
    IN  /\ Range(getOpenTrades(ts, st)) = {ts[i] : i \in OpenByStatus(ts)}
        /\ \A coin \in Coins :
             /\ canOpenTrade(st, ts, coin, riskConfig, now)
                  = canOpenTrade(Rebuilt(ts, st), ts, coin, riskConfig, now)
             /\ canOpenTrade(st, ts, coin, riskConfig, now).reason
                  = "max_concurrent"
                  => Cardinality(OpenByStatus(ts))
                       >= riskConfig.maxConcurrentPositions
        /\ \A i \in Range(getTradesDueForExit(ts, st, now))
                      \cup Range(getTradesAtStopLoss(ts, st, riskConfig)) :
             ts[i].status = "OPEN"

\* a call of calculateEdgeDecay has returned
EdgeDecayReturned == call.fn = "calculateEdgeDecay" /\ ~IsNull(call.result)

\* the closed trades of a ledger that exited from hour a on and before hour b
ExitedWithin(ts, a, b) ==
  LET within(x) == /\ x.status = "CLOSED"
                   /\ ~IsNull(x.exitTime)
                   /\ a <= x.exitTime[1]
                   /\ x.exitTime[1] < b
  IN  SelectSeq(ts, within)

\* the closed trades that exited in the last 30 days, and 30 to 60 days ago
RecentWindow(ts, t) ==
  ExitedWithin(ts, t - EdgeWindowDays * HoursPerDay, t + 1)
PriorWindow(ts, t) ==
  ExitedWithin(ts, t - 2 * EdgeWindowDays * HoursPerDay,
               t - EdgeWindowDays * HoursPerDay)

\* the number of winning trades of a window
WinsOf(w) == Cardinality({k \in 1..Len(w) : pnlOrZero(w[k]) > 0})

\* the trend of a recent value a/b against a prior value c/d, both in
\* points, with a threshold of 5 points (b, d > 0)
TrendOf(a, b, c, d) ==
  IF a * d - c * b > EdgeTrendPoints * b * d THEN "improving"
  ELSE IF a * d - c * b < (0 - EdgeTrendPoints) * b * d THEN "declining"
  ELSE "stable"

\* the win rate trend of a ledger at time t (the win rate of an empty
\* window is 0)
WinRateTrendOf(ts, t) ==
  LET r == RecentWindow(ts, t)
      p == PriorWindow(ts, t)
  IN  TrendOf(100 * WinsOf(r), Max(Len(r), 1),
              100 * WinsOf(p), Max(Len(p), 1))

RECURSIVE SumOver(_, _)
\* the sum of f over a finite set
SumOver(f, S) ==
  IF S = {} THEN 0
  ELSE LET x == CHOOSE y \in S : TRUE IN f[x] + SumOver(f, S \ {x})

\* the daily returns of a window, in hundreds of dollars: the realized P&L
\* of its trades summed per exit date
DailyReturns(w) ==
  [d \in {DateOf(w[k].exitTime[1]) : k \in 1..Len(w)} |->
     LET onDate(x) == DateOf(x.exitTime[1]) = d
     IN  SumPnl(SelectSeq(w, onDate)) \div (100 * Scale)]

\* n^2 times the variance of the daily returns of a window
SpreadOf(w) ==
  LET r == DailyReturns(w)
  IN  Cardinality(DOMAIN r) * SumOver([d \in DOMAIN r |-> r[d] * r[d]],
                                      DOMAIN r)
        - SumOver(r, DOMAIN r) * SumOver(r, DOMAIN r)

\* the Sharpe ratio of a window is 0: fewer than two trades or two exit
\* dates, no deviation, or a zero mean
SharpeIsZero(w) ==
  \/ Len(w) < 2
  \/ Cardinality(DOMAIN DailyReturns(w)) < 2
  \/ SpreadOf(w) = 0
  \/ SumOver(DailyReturns(w), DOMAIN DailyReturns(w)) = 0

\* the Sharpe ratio of a window, mean * 365 / (deviation * sqrt(365)), is
\* above 5 (sign = 1) or below -5 (sign = -1): compared on the squares
SharpeBeyond(w, sign) ==
  LET r == DailyReturns(w)
      sum == SumOver(r, DOMAIN r)
  IN  /\ ~SharpeIsZero(w)
      /\ sum * sign > 0
      /\ (HoursPerYear \div HoursPerDay) * sum * sum
           > EdgeTrendPoints * EdgeTrendPoints * SpreadOf(w)

\* C32: edge decay classifies winRateTrend and sharpeTrend by the value of
\* the last 30 days against the value of the 30 days before: improving when
\* it is more than 5 points higher, declining when it is more than 5 points
\* lower, stable otherwise (the Sharpe trend is stated where one of the two
\* ratios is 0, so that the other alone decides)
C32_EdgeDecayTrends ==
  EdgeDecayReturned =>
    LET ts == call.args[1]
        r == RecentWindow(ts, FnEdgeNow)
        p == PriorWindow(ts, FnEdgeNow)
        d == call.result[1]
    IN  /\ d.winRateTrend = WinRateTrendOf(ts, FnEdgeNow)
        /\ (SharpeIsZero(r) /\ SharpeIsZero(p)) => d.sharpeTrend = "stable"
        /\ (SharpeIsZero(p) /\ SharpeBeyond(r, 1))
             => d.sharpeTrend = "improving"
        /\ (SharpeIsZero(p) /\ SharpeBeyond(r, 0 - 1))
             => d.sharpeTrend = "declining"
        /\ (SharpeIsZero(r) /\ SharpeBeyond(p, 1))
             => d.sharpeTrend = "declining"
        /\ (SharpeIsZero(r) /\ SharpeBeyond(p, 0 - 1))
             => d.sharpeTrend = "improving"

\* C33: within one process tick each trade is closed at most once: every
\* trade the tick closes, a trade that was due and at the stop-loss
\* threshold at once included, has its exit fee added once to its fees, its
\* realizedPnl is the gross P&L at the fetched rate less those fees, and the
\* equity moves by the net P&L of each closed trade once; a trade that was
\* CLOSED before the tick is left as it was
C33_ClosedOncePerTick ==
  [][call'.fn = "processCommand" =>
       LET a == call'.args[1]
           closed == {i \in OpenStatusIdx : trades'[i].status = "CLOSED"}
       IN  /\ \A i \in closed :
                /\ trades'[i].fees = trades[i].fees + SideFee(trades[i])
                /\ trades'[i].realizedPnl
                     = Some(calculatePnl(trades[i], a.market[trades[i].coin],
                                         now - trades[i].entryTime)
                              - trades'[i].fees)
           /\ state'.currentEquity
                = state.currentEquity + SumRealizedOf(trades', closed)
           /\ \A i \in ClosedIdx : trades'[i] = trades[i]]_vars

\* a process tick closed a trade that was due and whose stored mark was at
\* the stop-loss threshold
C33_Witness ==
  /\ call.fn = "processCommand"
  /\ \E i \in call.args[1].marked \cap DOMAIN call.args[1].ok1 :
       /\ call.args[1].ok1[i]
       /\ trades[i].status = "CLOSED"
       /\ trades[i].fees = 2 * SideFee(trades[i])

\* the mark is suspended at the await of the rate of the trade at position i,
\* which a CLI command has closed meanwhile, both files written
ClosedUnderMark(i) ==
  /\ procs.monitor.pc = "awaiting"
  /\ Head(procs.monitor.arg[1]) = i
  /\ procs.cli.pc = "done"
  /\ trades[i].status = "CLOSED"
  /\ ~Includes(state.openPositions, trades[i].id)

\* C34: when a trade is closed while the mark that selected it awaits its
\* rate, the completed mark leaves the trade CLOSED with unrealizedPnl 0 and
\* the realizedPnl the close wrote, the ledger as the close left it, and the
\* account as the close left it
C34_MarkAfterClose ==
  [][\A i \in 1..Len(trades) :
       ClosedUnderMark(i) =>
         /\ trades'[i].status = "CLOSED"
         /\ trades'[i].unrealizedPnl = 0
         /\ trades'[i].realizedPnl = trades[i].realizedPnl
         /\ trades' = trades
         /\ state' = state]_vars

\* the positions of a ledger whose id starts with the id typed
Matches(ts, tradeId) == {i \in 1..Len(ts) : startsWith(ts[i].id, tradeId)}

\* the id typed names no trade of the ledger, or the trade it names (the
\* first one whose id starts with it) is CLOSED
NamesNoOpenTrade(ts, tradeId) ==
  \/ Matches(ts, tradeId) = {}
  \/ \E i \in Matches(ts, tradeId) :
       /\ \A j \in Matches(ts, tradeId) : i <= j
       /\ ts[i].status = "CLOSED"

\* C35: a manual close of a trade that is already CLOSED, or of an id that
\* matches no trade, changes nothing: the ledger (fees and realizedPnl
\* included) and the account (openPositions, currentEquity, peakEquity) are
\* as they were before the command
C35_ManualCloseNoOp ==
  (call.fn = "closeCommand"
     /\ NamesNoOpenTrade(call.args[1].trades, call.args[1].tradeId))
    => (trades = call.args[1].trades /\ state = call.args[1].state)

\* a manual close named a CLOSED trade with its full id, the rate fetch
\* succeeded, and another trade is open
C35_Witness ==
  /\ call.fn = "closeCommand"
  /\ ~IsNull(call.args[1].fetch)
  /\ \E i \in ClosedIdx : call.args[1].tradeId = trades[i].id
  /\ OpenStatusIdx # {}

\* the ledger positions of the closed trades of a coin
ClosedIn(coin) == {i \in ClosedIdx : trades[i].coin = coin}

\* the ledger positions of the trades the cooldown check of a coin inspects
Inspected(coin) ==
  LET recent == recentTrades(trades, coin, riskConfig)
  IN  {i \in 1..Len(trades) : \E k \in 1..Len(recent) :
                                recent[k].id = trades[i].id}

\* C36: the trades the cooldown check of a coin inspects are closed trades of
\* that coin, as many as the limit allows, and they are the ones with the
\* latest exit times: no closed trade of the coin that is left out exited
\* after one that is inspected. The last of them, which gives cooldownEnd,
\* has the latest exit time of the coin. A coin is rejected for cooldown only
\* on a loss of its own whose cooldown has not run out
C36_CooldownInspectsLatest ==
  \A coin \in Coins :
    LET recent == recentTrades(trades, coin, riskConfig)
        n == riskConfig.consecutiveLossLimit
    IN  /\ Inspected(coin) \subseteq ClosedIn(coin)
        /\ Cardinality(Inspected(coin)) = Len(recent)
        /\ n >= 1 => Len(recent) = Min(n, Cardinality(ClosedIn(coin)))
        /\ \A i \in Inspected(coin), j \in ClosedIn(coin) \ Inspected(coin) :
             trades[j].exitTime[1] <= trades[i].exitTime[1]
        /\ Len(recent) > 0 =>
             \A j \in ClosedIn(coin) :
               trades[j].exitTime[1] <= recent[Len(recent)].exitTime[1]
        /\ Decision(coin).reason = "cooldown" =>
             \E i \in ClosedIn(coin) :
               /\ trades[i].realizedPnl[1] < 0
               /\ \A j \in ClosedIn(coin) :
                    trades[j].exitTime[1] <= trades[i].exitTime[1]
               /\ now < trades[i].exitTime[1]
                          + riskConfig.cooldownDays * HoursPerDay

\* a coin has two closed trades that exited at different times, of which the
\* check inspects one, and is on cooldown while the other coin may open
C36_Witness ==
  \E coin \in Coins :
    /\ Cardinality(ClosedIn(coin)) = 2
    /\ Cardinality(Inspected(coin)) = 1
    /\ \E i, j \in ClosedIn(coin) :
         trades[i].exitTime[1] < trades[j].exitTime[1]
    /\ Decision(coin).reason = "cooldown"
    /\ \E other \in Coins \ {coin} : Decision(other).allowed

\* the drawdown breaker condition holds and no position is open
BreakerLatched == AtDrawdown /\ state.openPositions = <<>>

SignalToTradeRatio ==
  calculateSecondaryMetrics(trades, state, alertsLog).signalToTradeRatio

\* C38: the alert log grows by one entry at a time, and every step that
\* appends a trade to the ledger appends one trade and logs one alert;
\* hence the ledger never holds more trades than alerts were logged, and
\* signalToTradeRatio is at most 1 once an alert is logged and 1 before
C38_AlertsBoundTrades ==
  /\ [][/\ alertsLog' \in {alertsLog, alertsLog + 1}
        /\ Len(trades') # Len(trades) =>
             /\ Len(trades') = Len(trades) + 1
             /\ alertsLog' = alertsLog + 1]_vars
  /\ [](/\ Len(trades) <= alertsLog
        /\ alertsLog > 0 => SignalToTradeRatio <= 1 * Scale
        /\ alertsLog = 0 => SignalToTradeRatio = 1 * Scale)

\* alerts were logged without a trade next to an alert that opened one: the
\* ratio is below 1
C38_Witness ==
  /\ Len(trades) >= 1
  /\ alertsLog > Len(trades)
  /\ SignalToTradeRatio < 1 * Scale
  /\ SignalToTradeRatio > 0

RECURSIVE ReplayEnd(_, _, _)
\* the equity and the running peak at the end of a replay of closed trades
ReplayEnd(sorted, equity, peak) ==
  IF sorted = <<>> THEN [equity |-> equity, peak |-> peak]
  ELSE ReplayEnd(Tail(sorted), equity + pnlOrZero(Head(sorted)),
                 Max(peak, equity + pnlOrZero(Head(sorted))))

\* the replay of the ledger's closed trades in exit-time order from the
\* starting capital
LedgerReplay ==
  ReplayEnd(SortByExit(getClosedTrades(trades)), state.startingCapital,
            state.startingCapital)

\* the drawdown the circuit breaker uses, as a percentage with two decimals
CurrentDrawdown ==
  drawdownPercent(state.peakEquity - state.currentEquity, state.peakEquity)

\* C39: the replay of the closed trades in exit-time order from the starting
\* capital ends with the account's currentEquity and with a running peak
\* equal to peakEquity, and the maxDrawdown reported is not below the
\* current drawdown; trades with the same exit time included
C39_ReplayAgreesWithAccount ==
  /\ LedgerReplay.equity = state.currentEquity
  /\ LedgerReplay.peak = state.peakEquity
  /\ calculateMaxDrawdown(getClosedTrades(trades), state) >= CurrentDrawdown

\* no two closed trades of the ledger have the same exit time
NoEqualExitTimes ==
  \A i, j \in ClosedIdx : i # j => trades[i].exitTime # trades[j].exitTime

\* C39, amended: the replay ends with the account's currentEquity in every
\* state; when no two closed trades have the same exit time it ends with a
\* running peak equal to peakEquity, and the maxDrawdown reported is not
\* below the current drawdown
C39_ReplayAgreesUnlessTied ==
  /\ LedgerReplay.equity = state.currentEquity
  /\ NoEqualExitTimes =>
       /\ LedgerReplay.peak = state.peakEquity
       /\ calculateMaxDrawdown(getClosedTrades(trades), state)
            >= CurrentDrawdown

\* two trades were closed at different times, the one that exited first
\* being the later one in the ledger, with a drawdown in the replay and a
\* peak above the starting capital
C39_Witness ==
  /\ NoEqualExitTimes
  /\ \E i, j \in ClosedIdx :
       i < j /\ trades[j].exitTime[1] < trades[i].exitTime[1]
  /\ state.peakEquity > state.startingCapital
  /\ calculateMaxDrawdown(getClosedTrades(trades), state) > 0

====
